---- MODULE Spec2Model ----
(***************************************************************************)
(* State-machine model of lmb-engine-simulator: SystemBuilder, System      *)
(* (advance, advance_to_steady_state), the zero-dimensional elements       *)
(* (Environment, Reservoir, Cylinder) and the connectors (Orifice, Valve). *)
(*                                                                         *)
(* Quantisation.  The program computes in f64; the model computes in       *)
(* integers.  Angles are counted in sub-units (SubPerStep sub-units are    *)
(* the 0.1 degree step of advance_to_steady_state, FourPi sub-units are    *)
(* one 720 degree cycle), time in ticks, masses, pressures, temperatures   *)
(* and flows in small integer levels.  Arithmetic that is linear in the    *)
(* code (the mass equation, the sums of flows, the negations, the          *)
(* counters) is kept exactly.  The temperature that the Runge-Kutta step   *)
(* returns depends on sqrt/powf correlations and is taken as any level of  *)
(* TempLevels; the pressure then follows algebraically as in the code.     *)
(***************************************************************************)
EXTENDS Integers, Sequences, FiniteSets, TLC

\* ------------------------------------------------------------------ bounds

\* Number of 0.1 degree steps in one 720 degree cycle (7200 in the program).
StepsPerCycle == 4

\* Sub-units of crank angle covered by one 0.1 degree step.
SubPerStep == 2

\* Ticks per second of simulated time.
TicksPerSecond == 10

\* Largest mass level a finite control volume is followed to.
MaxMass == 32

\* Largest number of cylinders of an engine configuration.
MaxCyl == 4

\* Largest number of advance_to_steady_state calls followed.
MaxRuns == 1

\* Advance calls followed on a system that the user drives step by step.
MaxSamples == 6

\* ------------------------------------------------------ program constants

max_cycles == 10

max_time == 5

\* One four-stroke cycle, 4*PI radians, in sub-units.
FourPi == StepsPerCycle * SubPerStep

\* 180 degrees in sub-units.
Deg180 == FourPi \div 4

\* Rows of every pre-sized sample buffer.  The program uses 500000 rows,
\* more than the 11 * 7200 steps of the longest steady-state run; the model
\* keeps that order.
MAX_ARRAY_LEN == (max_cycles + 1) * StepsPerCycle + 4

\* Rows of the System time column (system.rs allocates it beside StoreData).
TimeLen == MAX_ARRAY_LEN

\* Temperature levels (even, so that the 50/50 blend of two levels is a level).
TempLevels == {2, 4}

\* ----------------------------------------------------------------- helpers

Min(a, b) == IF a < b THEN a ELSE b

Max(a, b) == IF a > b THEN a ELSE b

RECURSIVE SumSeq(_)
SumSeq(s) == IF s = <<>> THEN 0 ELSE Head(s) + SumSeq(Tail(s))

\* Index of the first element of s satisfying name = n, 0 when there is none
\* (Iterator::position returning None).
Position(s, n) ==
  IF \E i \in 1..Len(s) : s[i] = n
  THEN CHOOSE i \in 1..Len(s) : s[i] = n /\ \A j \in 1..(i - 1) : s[j] # n
  ELSE 0

\* The function s over 1..n as the sequence of its values.
AsSeq(s) == s \o <<>>

Names(s) == AsSeq([i \in 1..Len(s) |-> s[i].name])

\* ------------------------------------------------------------- FlowRatio

FlowRatio_new == [mass_flow |-> 0, enthalpy_flow |-> 0]

FlowRatio_add(a, b) ==
  [mass_flow |-> a.mass_flow + b.mass_flow,
   enthalpy_flow |-> a.enthalpy_flow + b.enthalpy_flow]

RECURSIVE FlowRatio_sum(_)
FlowRatio_sum(s) ==
  IF s = <<>> THEN FlowRatio_new
  ELSE FlowRatio_add(FlowRatio_sum(SubSeq(s, 1, Len(s) - 1)), s[Len(s)])

\* ------------------------------------------------------------- StoreData

\* data is the set of rows that hold a sample, last_index the next row.
StoreData_new == [data |-> {}, last_index |-> 0]

\* A variant of the test add_data makes that never finds the buffer full.
StoreData_never_full(sd) == FALSE

\* The test add_data makes before it writes a row.
StoreData_full(sd) == sd.last_index = MAX_ARRAY_LEN - 1

StoreData_add_data(sd) ==
  [data |-> sd.data \cup {sd.last_index}, last_index |-> sd.last_index + 1]

StoreData_reset_data(sd) == StoreData_new

ObjectInfo_new(name, obj_type, index) ==
  [name |-> name, obj_type |-> obj_type, index |-> index,
   stored_data |-> StoreData_new]

\* -------------------------------------------------------------------- Gas

\* Gas constant of the working gas; the state of a Gas is its temperature
\* and pressure level.
GasR == 1

\* k * R / km, the specific heat the connectors multiply the upstream
\* temperature by.  k is counted in tenths (14 is 7/5), so km = k - 1.0 is
\* k - 10.
cp_of(k, R) == (k * R) \div (k - 10)

Gas(T, P) == [T |-> T, P |-> P]

\* BasicProperties of an object; the working gas has k = 7/5.
GetState(name, gas, crank_angle) ==
  [name |-> name, pressure |-> gas.P, temperature |-> gas.T,
   cp_cv |-> 14, gas_const |-> GasR, crank_angle |-> crank_angle]

NoAngle == -1

\* ------------------------------------------------------------ ODE solver

\* rk4_step for a component whose derivative k is the same at the four
\* stages (the mass equation): x + step/6 * (k + 2k + 2k + k).
rk4_step_const(x, k, step) == x + (step * (k + 2 * k + 2 * k + k)) \div 6

\* ------------------------------------------------------------ Environment

Environment_new(name, gas) == [name |-> name, kind |-> "Environment", gas |-> gas]

\* ---------------------------------------------------------------- Reservoir

Reservoir_new(name, gas, volume) ==
  [name |-> name, kind |-> "Reservoir", gas |-> gas, volume |-> volume,
   mass |-> gas.P \div (volume * GasR * gas.T),
   flow_ratio |-> FlowRatio_new]

\* Reservoir::advance: one rk4 step of (temperature, mass) with the stored
\* flow; temp is the temperature level the step returns.
Reservoir_advance(r, dt, temp) ==
  LET mass == rk4_step_const(r.mass, r.flow_ratio.mass_flow, dt)
      press == mass * GasR * temp * r.volume
  IN [r EXCEPT !.gas = Gas(temp, press), !.mass = mass]

Reservoir_update_flow_ratio(r, total_flow_ratio) ==
  [r EXCEPT !.flow_ratio = FlowRatio_sum(total_flow_ratio)]

\* ZeroDim dispatch over the elements System.zero_dim holds.  A variant in
\* which the pressure of an Environment drifts with the step comes first.
ZeroDim_advance_drifting(z, dt, temp) ==
  IF z.kind = "Environment" THEN [z EXCEPT !.gas = Gas(z.gas.T, z.gas.P + dt)]
  ELSE Reservoir_advance(z, dt, temp)

ZeroDim_advance(z, dt, temp) ==
  IF z.kind = "Environment" THEN z ELSE Reservoir_advance(z, dt, temp)

ZeroDim_update_flow_ratio(z, total_flow_ratio) ==
  IF z.kind = "Environment" THEN z
  ELSE Reservoir_update_flow_ratio(z, total_flow_ratio)

ZeroDim_get_state(z) == GetState(z.name, z.gas, NoAngle)

\* ----------------------------------------------------------------- Cylinder

\* Slider-crank volume over one revolution (half a cycle): clearance volume
\* at top dead centre, largest at bottom dead centre.
RevSub == FourPi \div 2

Clearance == 1

calc_volume(angle) ==
  LET pos == angle % RevSub
  IN Clearance + Min(pos, RevSub - pos)

ValveBasicInfo_new(name) == [name |-> name, mass_flow |-> 0, back_flow |-> 0]

\* ValveBasicInfo::get_charge: <<fresh charge returned, new back_flow>>.  A
\* variant that keeps the debt it has just subtracted comes first.
get_charge_keeps_debt(v, dt) ==
  LET intake_mass == v.mass_flow * dt
      fresh_charge == intake_mass - v.back_flow
  IN IF intake_mass >= 0
     THEN IF fresh_charge >= 0 THEN <<fresh_charge, v.back_flow>>
          ELSE <<0, -fresh_charge>>
     ELSE <<0, v.back_flow - intake_mass>>

get_charge(v, dt) ==
  LET intake_mass == v.mass_flow * dt
      fresh_charge == intake_mass - v.back_flow
  IN IF intake_mass >= 0
     THEN IF fresh_charge >= 0 THEN <<fresh_charge, 0>>
          ELSE <<0, -fresh_charge>>
     ELSE <<0, v.back_flow - intake_mass>>

ValvesInfo_new(names) ==
  [basic_info |-> AsSeq([i \in 1..Len(names) |-> ValveBasicInfo_new(names[i])]),
   flow_info |-> FlowRatio_new]

\* Injector: inj_type is "none" (no injector), "port" or "direct".
Injector_new(inj_type) == [inj_type |-> inj_type, injected_fuel |-> 0]

\* fuel_mass_frac * intake_mass, with a fuel mass fraction of one half.
calc_port_injected_fuel(intake_mass) == intake_mass \div 2

\* Residual fraction 1 - fresh/mass, kept as the pair it is computed from;
\* the 0.0 a cylinder starts with is the pair (1, 1).
Residual(fresh, mass) == [fresh |-> fresh, mass |-> mass]

Cylinder_new(name, ini_angle, int_names, exh_names, inj_type, gas, sec_to_rad) ==
  LET volume == calc_volume(ini_angle)
  IN [name |-> name, gas |-> gas,
      mass |-> (gas.P * volume) \div (GasR * gas.T),
      volume |-> volume,
      angle |-> ini_angle,
      fuel_mass |-> 0,
      sec_to_rad |-> sec_to_rad,
      injector |-> Injector_new(inj_type),
      int_valves |-> ValvesInfo_new(int_names),
      exh_valves |-> ValvesInfo_new(exh_names),
      total_injected_fuel |-> 0,
      total_fresh_charge |-> 0,
      closed_phase_mass |-> 0,
      residual_mass_frac |-> Residual(1, 1),
      phase |-> "none"]

\* Cylinder::closed_phase: the bookkeeping at the head of the step, then the
\* rk4 step of the pressure; the mass is returned as it is.
closed_phase(c, d_angle, temp) ==
  LET first == c.fuel_mass = 0
      c1 == IF c.injector.inj_type = "port"
            THEN IF first
                 THEN [c EXCEPT !.fuel_mass = c.injector.injected_fuel,
                                !.total_injected_fuel = c.injector.injected_fuel,
                                !.closed_phase_mass = c.mass,
                                !.residual_mass_frac = Residual(c.total_fresh_charge, c.mass),
                                !.total_fresh_charge = 0]
                 ELSE [c EXCEPT !.injector.injected_fuel = 0]
            ELSE IF c.injector.inj_type = "direct"
            THEN IF first
                 THEN [c EXCEPT !.fuel_mass = 0,
                                !.total_injected_fuel = 0,
                                !.closed_phase_mass = c.mass,
                                !.residual_mass_frac = Residual(c.total_fresh_charge, c.mass),
                                !.total_fresh_charge = 0]
                 ELSE [c EXCEPT !.injector.injected_fuel = 0]
            ELSE [c EXCEPT !.closed_phase_mass = c.mass,
                           !.total_fresh_charge = 0]
      vol == calc_volume(c.angle + d_angle)
      press == (c1.mass * GasR * temp) \div vol
  IN [c1 EXCEPT !.gas = Gas(temp, press), !.volume = vol, !.phase = "closed"]

\* A variant of the open-phase step that leaves the exhaust flow out of the
\* mass equation.
open_phase_intake_only(c, d_angle, temp) ==
  LET dt == d_angle \div c.sec_to_rad
      mass == rk4_step_const(c.mass, c.int_valves.flow_info.mass_flow, dt)
      vol == calc_volume(c.angle + d_angle)
  IN [c EXCEPT !.gas = Gas(temp, (mass * GasR * temp) \div vol), !.mass = mass,
               !.volume = vol, !.fuel_mass = 0, !.phase = "open"]

\* Cylinder::open_phase: rk4 step of (temperature, mass) with the summed
\* valve flows, then the fresh-charge and injected-fuel bookkeeping.
open_phase(c, d_angle, temp) ==
  LET mass_flow == c.int_valves.flow_info.mass_flow + c.exh_valves.flow_info.mass_flow
      dt == d_angle \div c.sec_to_rad
      mass == rk4_step_const(c.mass, mass_flow, dt)
      vol == calc_volume(c.angle + d_angle)
      press == (mass * GasR * temp) \div vol
      info == c.int_valves.basic_info
      charges == AsSeq([i \in 1..Len(info) |-> get_charge(info[i], dt)])
      fresh_charge_mass == SumSeq(AsSeq([i \in 1..Len(info) |-> charges[i][1]]))
      new_info == AsSeq([i \in 1..Len(info) |-> [info[i] EXCEPT !.back_flow = charges[i][2]]])
      fuel_mass == IF c.injector.inj_type = "port"
                   THEN calc_port_injected_fuel(fresh_charge_mass) ELSE 0
  IN [c EXCEPT !.gas = Gas(temp, press), !.mass = mass, !.volume = vol,
               !.int_valves.basic_info = new_info,
               !.total_fresh_charge = c.total_fresh_charge + fresh_charge_mass,
               !.fuel_mass = 0,
               !.injector.injected_fuel =
                  IF c.injector.inj_type = "none" THEN 0
                  ELSE fuel_mass + c.injector.injected_fuel,
               !.phase = "open"]

\* A variant of the test that looks at the net flow of the valves.
is_closed_phase_net(c) ==
  c.int_valves.flow_info.mass_flow + c.exh_valves.flow_info.mass_flow = 0

\* The test Cylinder::advance makes to choose the step.
is_closed_phase(c) ==
  c.int_valves.flow_info.mass_flow = 0 /\ c.exh_valves.flow_info.mass_flow = 0

\* The crank angle after a step of d_angle.
next_angle(angle, d_angle) ==
  IF angle + d_angle >= FourPi THEN angle + d_angle - FourPi ELSE angle + d_angle

Cylinder_advance(c, dt, temp) ==
  LET d_angle == dt * c.sec_to_rad
      new_prop == IF is_closed_phase(c) THEN closed_phase(c, d_angle, temp)
                  ELSE open_phase(c, d_angle, temp)
  IN [new_prop EXCEPT !.angle = next_angle(c.angle, d_angle)]

\* Cylinder::update_flow_ratio.  total_flow_ratio is a sequence of
\* [name, flow]; found is FALSE when a valve of the cylinder has no entry
\* (the function then prints an error and exits).
FlowOf(total_flow_ratio, name) ==
  total_flow_ratio[Position(Names(total_flow_ratio), name)].flow

ValvesInfo_update(vi, total_flow_ratio) ==
  LET info == vi.basic_info
  IN [basic_info |-> AsSeq([i \in 1..Len(info) |->
                        [info[i] EXCEPT !.mass_flow =
                           FlowOf(total_flow_ratio, info[i].name).mass_flow]]),
      flow_info |-> FlowRatio_sum(AsSeq([i \in 1..Len(info) |->
                                     FlowOf(total_flow_ratio, info[i].name)]))]

Cylinder_flows_found(c, total_flow_ratio) ==
  /\ \A i \in 1..Len(c.int_valves.basic_info) :
        Position(Names(total_flow_ratio), c.int_valves.basic_info[i].name) # 0
  /\ \A i \in 1..Len(c.exh_valves.basic_info) :
        Position(Names(total_flow_ratio), c.exh_valves.basic_info[i].name) # 0

Cylinder_update_flow_ratio(c, total_flow_ratio) ==
  [c EXCEPT !.int_valves = ValvesInfo_update(c.int_valves, total_flow_ratio),
            !.exh_valves = ValvesInfo_update(c.exh_valves, total_flow_ratio)]

Cylinder_get_state(c) == GetState(c.name, c.gas, c.angle)

\* --------------------------------------------------------------- Connectors

\* Critical pressure ratio (2/(k+1))^(k/(k-1)) for k = 7/5, as a fraction.
CritNum == 528

CritDen == 1000

\* Flow direction from press_ratio = p0/p1 and the dead-band around 1:
\* <<i_up, i_down>> as indices into prop, or <<0, 0>> inside the dead-band.
\* Pressure levels are integers, so the ratio leaves the dead-band exactly
\* when the two levels differ; a zero or negative p1 is followed as IEEE
\* division does (x/0 is an infinity, 0/0 a NaN that fails both tests).

flow_direction_reversed(p0, p1) ==
  IF p0 > p1 THEN <<2, 1>> ELSE IF p0 < p1 THEN <<1, 2>> ELSE <<0, 0>>

flow_direction(p0, p1) ==
  IF (p1 > 0 /\ p0 > p1) \/ (p1 < 0 /\ p0 < p1) \/ (p1 = 0 /\ p0 > 0)
  THEN <<1, 2>>
  ELSE IF (p1 > 0 /\ p0 < p1) \/ (p1 < 0 /\ p0 > p1) \/ (p1 = 0 /\ p0 < 0)
  THEN <<2, 1>>
  ELSE <<0, 0>>

\* The subsonic test P_du > (2/kp)^(k/km).
is_subsonic(P_up, P_down) == P_down * CritDen > CritNum * P_up

\* Mass flow rate of the compressible-orifice equation for the effective
\* area cd_area (discharge coefficient times area): one level per unit of
\* effective area when subsonic, two when choked.
m_dot_of(cd_area, P_up, P_down) ==
  IF is_subsonic(P_up, P_down) THEN cd_area ELSE cd_area * 2

\* ZeroDimConn (the orifice): fixed effective area, two endpoints.
Orifice_new(name, cd_area, connecting) ==
  [name |-> name, kind |-> "Orifice", cd_area |-> cd_area,
   connecting |-> connecting,
   flow_ratio |-> <<FlowRatio_new, FlowRatio_new>>]

\* connect_to of both connectors pushes the endpoint and a zero FlowRatio
\* and then answers whether exactly two endpoints are connected.
Orifice_connect_to(o, elem_name) ==
  [o EXCEPT !.connecting = Append(o.connecting, elem_name),
            !.flow_ratio = Append(o.flow_ratio, FlowRatio_new)]

\* ZeroDimConn::update_flow_ratio.
Orifice_update_flow_ratio(o, prop, step) ==
  LET dir == flow_direction(prop[1].pressure, prop[2].pressure)
      i_up == dir[1]
      i_down == dir[2]
  IN IF i_up = 0
     THEN [ok |-> TRUE,
           conn |-> [o EXCEPT !.flow_ratio =
                       AsSeq([i \in 1..Len(o.flow_ratio) |-> FlowRatio_new])]]
     ELSE
       LET m_dot == m_dot_of(o.cd_area, prop[i_up].pressure, prop[i_down].pressure)
           i == Position(o.connecting, prop[i_up].name)
           ii == Position(o.connecting, prop[i_down].name)
           up == [mass_flow |-> -m_dot,
                  enthalpy_flow |-> -m_dot * cp_of(prop[i_up].cp_cv, prop[i_up].gas_const)
                                      * prop[i_up].temperature]
       IN IF i = 0 \/ ii = 0
          THEN [ok |-> FALSE, conn |-> o]
          ELSE
            LET f1 == [o.flow_ratio EXCEPT ![i] = up]
                f2 == [f1 EXCEPT ![ii] =
                         [mass_flow |-> -f1[i].mass_flow,
                          enthalpy_flow |-> -f1[i].enthalpy_flow]]
            IN [ok |-> TRUE, conn |-> [o EXCEPT !.flow_ratio = f2]]

Orifice_get_flow_ratio(o, elem_name) ==
  LET i == Position(o.connecting, elem_name)
  IN IF i = 0 THEN [ok |-> FALSE, flow |-> FlowRatio_new]
     ELSE [ok |-> TRUE, flow |-> o.flow_ratio[i]]

\* ValveLift::new.  The lift over diameter is a rational number: consts
\* holds the numerators a1, b1, b2, b3, c1, c2, c3 over the common
\* denominator den = 2 * time_opened^2, and the two interval ends
\* time_opened / n and (n - 1) * time_opened / n are kept as n and the
\* numerators.
ValveLift_new(max_lift_diam_ratio, time_opened) ==
  LET acceler_ratio == -2
      den == 2 * time_opened * time_opened
      a1 == 2 * 4 * max_lift_diam_ratio * (1 - acceler_ratio)
      b1 == -((-a1) \div acceler_ratio)
      b2 == -b1 * time_opened
      b3 == -((b2 * time_opened) \div (4 * (1 - acceler_ratio)))
      c1 == a1
      c2 == -2 * a1 * time_opened
      c3 == a1 * time_opened * time_opened
      n == 2 * (1 - acceler_ratio)
  IN [time_opened |-> time_opened, max_lift_diam_ratio |-> max_lift_diam_ratio,
      den |-> den, consts |-> <<a1, b1, b2, b3, c1, c2, c3>>,
      n |-> n, intervals |-> <<time_opened, (n - 1) * time_opened>>]

\* The three quadratic segments of the lift profile, as numerators over
\* vl.den: the opening ramp, the middle arc and the closing ramp.
lift_segment(vl, seg, angle) ==
  IF seg = 1 THEN vl.consts[1] * angle * angle
  ELSE IF seg = 3
  THEN vl.consts[5] * angle * angle + vl.consts[6] * angle + vl.consts[7]
  ELSE vl.consts[2] * angle * angle + vl.consts[3] * angle + vl.consts[4]

\* The segment ValveLift::calc_lift evaluates at angle.  A variant that
\* takes the closing ramp from the middle of the duration on comes first.
lift_segment_at_early_closing(vl, angle) ==
  IF vl.n * angle <= vl.intervals[1] THEN 1
  ELSE IF 2 * angle >= vl.time_opened THEN 3
  ELSE 2

lift_segment_at(vl, angle) ==
  IF vl.n * angle <= vl.intervals[1] THEN 1
  ELSE IF vl.n * angle >= vl.intervals[2] THEN 3
  ELSE 2

\* ValveLift::calc_lift, as a numerator over vl.den.
ValveLift_calc_lift(vl, angle) == lift_segment(vl, lift_segment_at(vl, angle), angle)

\* Valve.  flow_ratio is a sequence of [name, flow]; entry 1 is the cylinder.
\* max_lift / diameter is two lift levels.
Valve_new(name, opening_angle, closing_angle, cylinder_name) ==
  LET delta_angle == closing_angle - opening_angle
      time_opened == IF delta_angle < 0 THEN delta_angle + FourPi ELSE delta_angle
  IN [name |-> name, kind |-> "Valve", angle |-> 0,
      opening_angle |-> opening_angle, closing_angle |-> closing_angle,
      delta_angle |-> delta_angle,
      time_opened |-> time_opened,
      valve_lift |-> ValveLift_new(2, time_opened),
      throat_area |-> 0,
      flow_ratio |-> <<[name |-> cylinder_name, flow |-> FlowRatio_new]>>,
      backflow_mass |-> 0,
      connecting |-> <<cylinder_name>>]

Valve_connect_to(v, elem_name) ==
  [v EXCEPT !.connecting = Append(v.connecting, elem_name),
            !.flow_ratio = Append(v.flow_ratio,
                                  [name |-> elem_name, flow |-> FlowRatio_new])]

\* The lift level the valve gets from ValveLift::calc_lift: the whole lift
\* levels in the rational lift.
calc_lift(vl, angle) == ValveLift_calc_lift(vl, angle) \div vl.den

\* Valve::calc_throat_area: grows with the lift, zero at zero lift.
calc_throat_area(lift_diam) == lift_diam

\* Valve::default_discharge_coeff: zero for a throat area below 1e-10.
default_discharge_coeff(lift_diam, throat_area, direction) ==
  IF throat_area = 0 THEN 0 ELSE 1

\* Valve::is_open.  A variant whose test for a window that straddles the
\* wrap is inverted comes first.
is_open_inverted_wrap(v, chank_angle) ==
  IF v.delta_angle < 0
  THEN chank_angle < v.opening_angle /\ chank_angle > v.closing_angle
  ELSE ~(chank_angle < v.opening_angle \/ chank_angle > v.closing_angle)

is_open(v, chank_angle) ==
  IF v.delta_angle < 0
  THEN ~(chank_angle < v.opening_angle /\ chank_angle > v.closing_angle)
  ELSE ~(chank_angle < v.opening_angle \/ chank_angle > v.closing_angle)

set_flow_to_zero(v) ==
  [v EXCEPT !.flow_ratio =
     AsSeq([i \in 1..Len(v.flow_ratio) |-> [v.flow_ratio[i] EXCEPT !.flow = FlowRatio_new]])]

\* The test "check if had backflow".  A variant that never finds backflow
\* comes first.
had_backflow_never(v, prop, i_down) == FALSE

had_backflow(v, prop, i_down) ==
  v.backflow_mass > 0 /\ prop[i_down].name = v.flow_ratio[1].name

\* The upstream temperature, cp/cv and gas constant the valve uses: the
\* 50/50 blend of the two endpoints after backflow, the upstream endpoint's
\* otherwise.
Valve_T_up(v, prop, i_up, i_down) ==
  IF had_backflow(v, prop, i_down)
  THEN (prop[i_up].temperature + prop[i_down].temperature) \div 2
  ELSE prop[i_up].temperature

Valve_k_up(v, prop, i_up, i_down) ==
  IF had_backflow(v, prop, i_down)
  THEN (prop[i_up].cp_cv + prop[i_down].cp_cv) \div 2
  ELSE prop[i_up].cp_cv

Valve_R_up(v, prop, i_up, i_down) ==
  IF had_backflow(v, prop, i_down)
  THEN (prop[i_up].gas_const + prop[i_down].gas_const) \div 2
  ELSE prop[i_up].gas_const

\* The locals T_up, k, R of a call that returned before it set them.
NoUpstream == [T_up |-> 0, k |-> 0, R |-> 0]

\* "Add back-flow if necessary": the accumulator after the flow of this
\* step.  A variant without the floor at zero comes first.
add_backflow_unfloored(backflow_mass, cylinder_mass_flow, dt) ==
  backflow_mass + (-cylinder_mass_flow) * dt

add_backflow(backflow_mass, cylinder_mass_flow, dt) ==
  LET b == backflow_mass + (-cylinder_mass_flow) * dt
  IN IF b < 0 THEN 0 ELSE b

\* The crank angle a valve reads from its endpoint states (the last one that
\* carries an angle), NoAngle when none does.
Valve_crank_angle(prop) ==
  IF \E i \in 1..Len(prop) : prop[i].crank_angle # NoAngle
  THEN prop[CHOOSE i \in 1..Len(prop) :
              /\ prop[i].crank_angle # NoAngle
              /\ \A j \in (i + 1)..Len(prop) : prop[j].crank_angle = NoAngle].crank_angle
  ELSE NoAngle

\* The flow the connector reports for the downstream endpoint.  A variant
\* that leaves the sign of the enthalpy flow as it is upstream comes first.
downstream_of_unsigned_enthalpy(up) ==
  [mass_flow |-> -up.mass_flow, enthalpy_flow |-> up.enthalpy_flow]

downstream_of(up) ==
  [mass_flow |-> -up.mass_flow, enthalpy_flow |-> -up.enthalpy_flow]

\* Valve::update_flow_ratio; ok is FALSE where the function exits the
\* process, used holds the locals T_up, k, R.
Valve_update_flow_ratio(v, prop, dt) ==
  IF Len(prop) # 2 \/ Valve_crank_angle(prop) = NoAngle
  THEN [ok |-> FALSE, conn |-> v, used |-> NoUpstream]
  ELSE
    LET crank_angle == Valve_crank_angle(prop)
        v0 == [v EXCEPT !.angle = crank_angle]
    IN IF ~is_open(v, crank_angle)
       THEN [ok |-> TRUE,
             conn |-> [set_flow_to_zero(v0) EXCEPT !.throat_area = 0,
                                                   !.backflow_mass = 0],
             used |-> NoUpstream]
       ELSE
         LET delta == crank_angle - v.opening_angle
             angle == IF delta >= 0 THEN delta ELSE delta + FourPi
             lift_diam == calc_lift(v.valve_lift, angle)
             thoat_area == calc_throat_area(lift_diam)
             v1 == [v0 EXCEPT !.throat_area = thoat_area]
             dir == flow_direction(prop[1].pressure, prop[2].pressure)
             i_up == dir[1]
             i_down == dir[2]
         IN IF i_up = 0
            THEN [ok |-> TRUE, conn |-> set_flow_to_zero(v1), used |-> NoUpstream]
            ELSE
              LET T_up == Valve_T_up(v, prop, i_up, i_down)
                  k == Valve_k_up(v, prop, i_up, i_down)
                  R == Valve_R_up(v, prop, i_up, i_down)
                  used == [T_up |-> T_up, k |-> k, R |-> R]
                  direction == IF prop[i_down].name = v.connecting[1]
                               THEN "forward" ELSE "backward"
                  cd == default_discharge_coeff(lift_diam, thoat_area, direction)
                  m_dot == m_dot_of(cd * thoat_area, prop[i_up].pressure,
                                    prop[i_down].pressure)
                  i == Position(Names(v.flow_ratio), prop[i_up].name)
                  ii == Position(Names(v.flow_ratio), prop[i_down].name)
              IN IF i = 0 \/ ii = 0
                 THEN [ok |-> FALSE, conn |-> v, used |-> used]
                 ELSE
                   LET f1 == [v1.flow_ratio EXCEPT ![i].flow =
                                [mass_flow |-> -m_dot,
                                 enthalpy_flow |-> -m_dot * cp_of(k, R) * T_up]]
                       f2 == [f1 EXCEPT ![ii].flow = downstream_of(f1[i].flow)]
                   IN [ok |-> TRUE,
                       conn |-> [v1 EXCEPT !.flow_ratio = f2,
                                           !.backflow_mass =
                                              add_backflow(v.backflow_mass,
                                                           f2[1].flow.mass_flow, dt)],
                       used |-> used]

Valve_get_flow_ratio(v, elem_name) ==
  LET i == Position(Names(v.flow_ratio), elem_name)
  IN IF i = 0 THEN [ok |-> FALSE, flow |-> FlowRatio_new]
     ELSE [ok |-> TRUE, flow |-> v.flow_ratio[i].flow]

\* Dispatch over the connectors System.connector holds.
Conn_connect_to(c, elem_name) ==
  IF c.kind = "Valve" THEN Valve_connect_to(c, elem_name)
  ELSE Orifice_connect_to(c, elem_name)

Conn_update_flow_ratio(c, prop, dt) ==
  IF c.kind = "Valve" THEN Valve_update_flow_ratio(c, prop, dt)
  ELSE Orifice_update_flow_ratio(c, prop, dt)

Conn_get_flow_ratio(c, elem_name) ==
  IF c.kind = "Valve" THEN Valve_get_flow_ratio(c, elem_name)
  ELSE Orifice_get_flow_ratio(c, elem_name)

\* ------------------------------------------------------------------- Engine

\* OperationalParameters: the seven performance history series.
OperationalParameters_new ==
  [speed |-> <<>>, power |-> <<>>, torque |-> <<>>, imep |-> <<>>,
   thermal_effic |-> <<>>, vol_effic |-> <<>>, residual_mass |-> <<>>]

\* speed stands for the engine speed: sec_to_rad, in sub-units per tick.
NoEngine ==
  [present |-> FALSE, cylinders |-> <<>>, valves |-> <<>>, sec_to_rad |-> 0,
   operat_param |-> OperationalParameters_new]

\* The valves of the cylinders of an engine file, cylinder by cylinder,
\* intake valves before exhaust valves.
RECURSIVE Engine_valves(_)
Engine_valves(cyls) ==
  IF cyls = <<>> THEN <<>>
  ELSE LET c == Head(cyls)
           mk(vs) == AsSeq([i \in 1..Len(vs) |->
                        Valve_new(vs[i].name, vs[i].opening_angle,
                                  vs[i].closing_angle, c.name)])
       IN mk(c.intake_valves) \o mk(c.exhaust_valves) \o Engine_valves(Tail(cyls))

\* The initial crank angle Engine::new hands to Cylinder::new for a cylinder
\* with firing-order token order: 180 + (order - 1) * 720 / num_divisions.
ini_angle_of(order, num_divisions) ==
  Deg180 + (order - 1) * (FourPi \div num_divisions)

RECURSIVE MaxOfSeq(_)
MaxOfSeq(s) == IF Len(s) = 1 THEN s[1] ELSE Max(Head(s), MaxOfSeq(Tail(s)))

\* Engine::new; ok is FALSE when it returns Err.
Engine_new(cfg, gas) ==
  IF Len(cfg.firing_order) # Len(cfg.cylinders)
  THEN [ok |-> FALSE, engine |-> NoEngine]
  ELSE
    LET num_divisions == MaxOfSeq(cfg.firing_order)
        cylinders == AsSeq([k \in 1..Len(cfg.cylinders) |->
                        Cylinder_new(cfg.cylinders[k].name,
                                     ini_angle_of(cfg.firing_order[k], num_divisions),
                                     Names(cfg.cylinders[k].intake_valves),
                                     Names(cfg.cylinders[k].exhaust_valves),
                                     cfg.inj_type, gas, cfg.speed)])
    IN [ok |-> TRUE,
        engine |-> [present |-> TRUE, cylinders |-> cylinders,
                    valves |-> Engine_valves(cfg.cylinders),
                    sec_to_rad |-> cfg.speed,
                    operat_param |-> OperationalParameters_new]]

\* Engine::advance.  temps[k] is the temperature level the step of cylinder
\* k returns.
Engine_advance(e, dt, temps) ==
  [e EXCEPT !.cylinders =
     AsSeq([k \in 1..Len(e.cylinders) |-> Cylinder_advance(e.cylinders[k], dt, temps[k])])]

\* Engine::set_speed.
Engine_set_speed(e, speed) ==
  [e EXCEPT !.sec_to_rad = speed,
            !.cylinders = AsSeq([k \in 1..Len(e.cylinders) |->
                             [e.cylinders[k] EXCEPT !.sec_to_rad = speed]])]

\* ------------------------------------------------------------ SystemBuilder

\* A builder value: the four collections SystemBuilder owns.
SystemBuilder_new ==
  [objs_info |-> <<>>, engine |-> NoEngine, zero_dim |-> <<>>, connector |-> <<>>]

\* SystemBuilder::does_it_exist.  A variant that looks at the last object
\* only comes first.
does_it_exist_last_only(b, obj_name) ==
  b.objs_info # <<>> /\ b.objs_info[Len(b.objs_info)].name = obj_name

does_it_exist(b, obj_name) ==
  \E i \in 1..Len(b.objs_info) : b.objs_info[i].name = obj_name

\* Pushes the ObjectInfo of names[1..n] one after the other; stops with
\* st = "exit" at the first name that already exists.  first_index is the
\* index the first object gets in its collection.
RECURSIVE push_infos(_, _, _, _)
push_infos(b, names, obj_type, first_index) ==
  IF names = <<>> THEN [st |-> "ok", b |-> b]
  ELSE IF does_it_exist(b, Head(names)) THEN [st |-> "exit", b |-> b]
  ELSE push_infos([b EXCEPT !.objs_info =
                     Append(b.objs_info, ObjectInfo_new(Head(names), obj_type, first_index))],
                  Tail(names), obj_type, first_index + 1)

\* SystemBuilder::add_engine.
add_engine(b, cfg, gas) ==
  LET r == Engine_new(cfg, gas)
  IN IF ~r.ok THEN [st |-> "exit", b |-> b]
     ELSE
       LET b1 == push_infos(b, Names(r.engine.cylinders), "Cylinder", 1)
       IN IF b1.st # "ok" THEN b1
          ELSE
            LET b2 == push_infos(b1.b, Names(r.engine.valves), "Connector",
                                 Len(b.connector) + 1)
            IN IF b2.st # "ok" THEN b2
               ELSE [st |-> "ok",
                     b |-> [b2.b EXCEPT !.connector = b.connector \o r.engine.valves,
                                        !.engine = r.engine]]

\* SystemBuilder::add_environment.
add_environment(b, elem_name, gas) ==
  IF does_it_exist(b, elem_name) THEN [st |-> "exit", b |-> b]
  ELSE [st |-> "ok",
        b |-> [b EXCEPT
                 !.objs_info = Append(b.objs_info,
                    ObjectInfo_new(elem_name, "ZeroDim", Len(b.zero_dim) + 1)),
                 !.zero_dim = Append(b.zero_dim, Environment_new(elem_name, gas))]]

\* SystemBuilder::add_reservoir.
add_reservoir(b, elem_name, volume, gas) ==
  IF does_it_exist(b, elem_name) \/ volume <= 0 THEN [st |-> "exit", b |-> b]
  ELSE [st |-> "ok",
        b |-> [b EXCEPT
                 !.objs_info = Append(b.objs_info,
                    ObjectInfo_new(elem_name, "ZeroDim", Len(b.zero_dim) + 1)),
                 !.zero_dim = Append(b.zero_dim, Reservoir_new(elem_name, gas, volume))]]

\* SystemBuilder::add_orifice.
add_orifice(b, elem_name, cd_area, conn) ==
  IF does_it_exist(b, elem_name) \/ Len(conn) # 2 THEN [st |-> "exit", b |-> b]
  ELSE [st |-> "ok",
        b |-> [b EXCEPT
                 !.objs_info = Append(b.objs_info,
                    ObjectInfo_new(elem_name, "Connector", Len(b.connector) + 1)),
                 !.connector = Append(b.connector, Orifice_new(elem_name, cd_area, conn))]]

\* SystemBuilder::connect_from_to.
connect_from_to(b, conn_name, elem_name) ==
  IF ~does_it_exist(b, elem_name) THEN [st |-> "exit", b |-> b]
  ELSE
    LET k == Position(Names(b.objs_info), conn_name)
    IN IF k = 0 THEN [st |-> "panic", b |-> b]
       ELSE IF b.objs_info[k].obj_type # "Connector" THEN [st |-> "exit", b |-> b]
       ELSE
         LET i == b.objs_info[k].index
             c == Conn_connect_to(b.connector[i], elem_name)
         IN IF Len(c.connecting) # 2 THEN [st |-> "exit", b |-> b]
            ELSE [st |-> "ok", b |-> [b EXCEPT !.connector[i] = c]]

\* ------------------------------------------------------------------- System

VARIABLES
  objs_info,                  \* Vec<ObjectInfo>, with the StoreData of each object
  engine,                     \* Option<Engine>
  zero_dim,                   \* Vec<Box<dyn ZeroD>>
  connector,                  \* Vec<Box<dyn Conn>>
  engine_connectors_index,    \* per cylinder, the connectors touching it
  zero_dim_connectors_index,  \* per zero-dimensional element, the connectors touching it
  connector_objects_index,    \* per connector, the <<kind, index>> of its endpoints
  cycle_start,
  iterations_counter,
  time,                       \* the written rows of System.time
  pc,                         \* "building", "ready", or "loop" inside advance_to_steady_state
  loc,                        \* the locals of advance_to_steady_state: time, cycle, total_angle
  status,                     \* "ok", "exit" (process::exit(1)) or "panic"
  runs                        \* advance_to_steady_state calls begun

vars == <<objs_info, engine, zero_dim, connector, engine_connectors_index,
          zero_dim_connectors_index, connector_objects_index, cycle_start,
          iterations_counter, time, pc, loc, status, runs>>

NoLoc == [time |-> 0, cycle |-> 0, total_angle |-> 0]

\* System::get_connectors_index: the connectors naming obj_name (empty: Err).
get_connectors_index(b, obj_name) ==
  LET hit == {i \in 1..Len(b.connector) :
                \E e \in 1..Len(b.connector[i].connecting) :
                   b.connector[i].connecting[e] = obj_name}
      RECURSIVE Asc(_, _)
      Asc(i, acc) == IF i > Len(b.connector) THEN acc
                     ELSE Asc(i + 1, IF i \in hit THEN Append(acc, i) ELSE acc)
  IN Asc(1, <<>>)

\* System::get_dim_obj_index for one endpoint name: <<kind, index>>, with
\* kind "Err" for the Err return and "Panic" for unwrap() on None.
dim_obj_index_of(b, obj) ==
  IF Position(Names(b.zero_dim), obj) # 0
  THEN <<"ZeroDim", Position(Names(b.zero_dim), obj)>>
  ELSE IF b.engine.present
  THEN IF Position(Names(b.engine.cylinders), obj) # 0
       THEN <<"Cylinder", Position(Names(b.engine.cylinders), obj)>>
       ELSE <<"Panic", 0>>
  ELSE <<"Err", 0>>

get_dim_obj_index(b, conn_list) ==
  AsSeq([e \in 1..Len(conn_list) |-> dim_obj_index_of(b, conn_list[e])])

\* The outcome of System::setup_indexes: the elements are resolved first,
\* then the connectors, then the cylinders; the first failure decides.
setup_indexes_status(b) ==
  LET zd_err == \E i \in 1..Len(b.zero_dim) :
                   get_connectors_index(b, b.zero_dim[i].name) = <<>>
      bad == {c \in 1..Len(b.connector) :
                \E e \in 1..Len(b.connector[c].connecting) :
                   dim_obj_index_of(b, b.connector[c].connecting[e])[1]
                      \in {"Err", "Panic"}}
      cyl_err == \E k \in 1..Len(b.engine.cylinders) :
                    get_connectors_index(b, b.engine.cylinders[k].name) = <<>>
  IN IF zd_err THEN "err"
     ELSE IF bad # {} THEN (IF b.engine.present THEN "panic" ELSE "err")
     ELSE IF b.engine.present /\ cyl_err THEN "err"
     ELSE "ok"

\* ---------------------------------------------------------- System::advance

\* Temperature levels the integration of the elements may return: any level
\* for a Reservoir, the constant temperature for an Environment.
ZeroDimTemps ==
  {f \in [1..Len(zero_dim) -> TempLevels] :
     \A i \in 1..Len(zero_dim) :
        zero_dim[i].kind = "Environment" => f[i] = zero_dim[i].gas.T}

CylinderTemps == [1..Len(engine.cylinders) -> TempLevels]

\* (1) every control volume integrated by dt with the flow it holds.
adv_zero_dim(zd, dt, tz) ==
  AsSeq([i \in 1..Len(zd) |-> ZeroDim_advance(zd[i], dt, tz[i])])

adv_engine(eng, dt, tc) ==
  IF eng.present THEN Engine_advance(eng, dt, tc) ELSE eng

\* (2) every connector recomputes its flow from the states just integrated.
basic_properties(zd, eng, c) ==
  LET list == connector_objects_index[c]
  IN AsSeq([e \in 1..Len(list) |->
        IF list[e][1] = "ZeroDim" THEN ZeroDim_get_state(zd[list[e][2]])
        ELSE Cylinder_get_state(eng.cylinders[list[e][2]])])

adv_connector(zd, eng, dt) ==
  AsSeq([c \in 1..Len(connector) |->
     Conn_update_flow_ratio(connector[c], basic_properties(zd, eng, c), dt)])

\* (3) the flows of the connectors touching an object, as [name, flow].
total_flow_ratio(conn, index_list, obj_name) ==
  AsSeq([k \in 1..Len(index_list) |->
     [name |-> conn[index_list[k]].name,
      flow |-> Conn_get_flow_ratio(conn[index_list[k]], obj_name).flow]])

upd_zero_dim(zd, conn) ==
  AsSeq([i \in 1..Len(zd) |->
     ZeroDim_update_flow_ratio(zd[i],
        LET t == total_flow_ratio(conn, zero_dim_connectors_index[i], zd[i].name)
        IN [k \in 1..Len(t) |-> t[k].flow])])

upd_engine(eng, conn) ==
  [eng EXCEPT !.cylinders =
     AsSeq([k \in 1..Len(eng.cylinders) |->
        Cylinder_update_flow_ratio(eng.cylinders[k],
           total_flow_ratio(conn, engine_connectors_index[k], eng.cylinders[k].name))])]

\* (4) one sample appended per object.

\* A variant that stores a sample for the first tracked object only.
adv_objs_info_first_only ==
  AsSeq([k \in 1..Len(objs_info) |->
     IF k = 1
     THEN [objs_info[k] EXCEPT !.stored_data = StoreData_add_data(objs_info[k].stored_data)]
     ELSE objs_info[k]])

adv_objs_info ==
  AsSeq([k \in 1..Len(objs_info) |->
     [objs_info[k] EXCEPT !.stored_data = StoreData_add_data(objs_info[k].stored_data)]])

\* The outcome of an advance call from the connectors' results cn and the
\* collections zd and eng it leaves: st is "exit" when a step of the call
\* ends the process.
advance_result(zd, eng, cn) ==
  LET conn1 == AsSeq([c \in 1..Len(cn) |-> cn[c].conn])
      conn_ok == \A c \in 1..Len(cn) : cn[c].ok
      found == \A k \in 1..Len(eng.cylinders) :
                 Cylinder_flows_found(eng.cylinders[k],
                    total_flow_ratio(conn1, engine_connectors_index[k],
                                     eng.cylinders[k].name))
      full == \E k \in 1..Len(objs_info) : StoreData_full(objs_info[k].stored_data)
  IN IF ~conn_ok \/ ~found \/ full
     THEN [st |-> "exit", zero_dim |-> zero_dim, engine |-> engine,
           connector |-> connector, objs_info |-> objs_info]
     ELSE [st |-> "ok", zero_dim |-> upd_zero_dim(zd, conn1),
           engine |-> upd_engine(eng, conn1),
           connector |-> conn1, objs_info |-> adv_objs_info]

\* A variant of the call with the first two steps swapped: the connectors
\* recompute their flows first and the control volumes integrate with them.
System_advance_flow_first(dt, tz, tc) ==
  LET cn == adv_connector(zero_dim, engine, dt)
      conn1 == AsSeq([c \in 1..Len(cn) |-> cn[c].conn])
      ok == \A c \in 1..Len(cn) : cn[c].ok
      zd1 == IF ok THEN adv_zero_dim(upd_zero_dim(zero_dim, conn1), dt, tz)
             ELSE zero_dim
      eng1 == IF ok THEN adv_engine(upd_engine(engine, conn1), dt, tc) ELSE engine
  IN advance_result(zd1, eng1, cn)

\* The order of System::advance: integrate, recompute the connector flows,
\* hand the flows to the control volumes, store one sample per object.
System_advance(dt, tz, tc) ==
  LET zd1 == adv_zero_dim(zero_dim, dt, tz)
      eng1 == adv_engine(engine, dt, tc)
  IN advance_result(zd1, eng1, adv_connector(zd1, eng1, dt))

\* The masses a state holds stay within the levels the model follows.
MassesInRange(zd, eng) ==
  /\ \A i \in 1..Len(zd) : zd[i].kind = "Reservoir" => zd[i].mass \in 0..MaxMass
  /\ \A k \in 1..Len(eng.cylinders) : eng.cylinders[k].mass \in 0..MaxMass

\* -------------------------------------------------------------- System::new

\* System::new: the collections of the builder and the index tables of
\* setup_indexes; st is its outcome ("err" is the Err return).
System_new(b) ==
  [st |-> setup_indexes_status(b),
   zero_dim_connectors_index |->
     AsSeq([i \in 1..Len(b.zero_dim) |-> get_connectors_index(b, b.zero_dim[i].name)]),
   connector_objects_index |->
     AsSeq([c \in 1..Len(b.connector) |-> get_dim_obj_index(b, b.connector[c].connecting)]),
   engine_connectors_index |->
     AsSeq([k \in 1..Len(b.engine.cylinders) |->
        get_connectors_index(b, b.engine.cylinders[k].name)])]

\* The builder the four collections of the state make up.
builder == [objs_info |-> objs_info, engine |-> engine, zero_dim |-> zero_dim,
            connector |-> connector]

\* The state of a System that System::new returned for builder b.
Built(b) ==
  LET sys == System_new(b)
  IN /\ objs_info = b.objs_info
     /\ engine = b.engine
     /\ zero_dim = b.zero_dim
     /\ connector = b.connector
     /\ engine_connectors_index = sys.engine_connectors_index
     /\ zero_dim_connectors_index = sys.zero_dim_connectors_index
     /\ connector_objects_index = sys.connector_objects_index
     /\ cycle_start = 0
     /\ iterations_counter = 0
     /\ time = <<>>
     /\ pc = "ready"
     /\ loc = NoLoc
     /\ status = "ok"
     /\ runs = 0

\* ------------------------------------------------------------ The systems

\* Ambient gas: temperature and pressure level.
Ambient == Gas(2, 8)

\* The gas of the exhaust port: above the ambient pressure.
BackPressure == Gas(2, 16)

\* Valve timing of the engine file, in crank-angle sub-units: the exhaust
\* valve opens before bottom dead centre and closes after top dead centre,
\* the intake valve opens before the exhaust valve closes (overlap).
ExhOpen == Deg180 \div 2

ExhClose == FourPi \div 2 + 1

IntOpen == ExhClose - 2

IntClose == FourPi - 1

\* Engine speeds, in crank-angle sub-units per tick.
Speeds == {1, 2}

\* Time increments of an advance call, in ticks.
DtSet == {1, 2}

CylinderCfg(k) ==
  [name |-> IF k = 1 THEN "cyl_1" ELSE IF k = 2 THEN "cyl_2"
            ELSE IF k = 3 THEN "cyl_3" ELSE "cyl_4",
   intake_valves |-> <<[name |-> IF k = 1 THEN "valve_int" ELSE IF k = 2 THEN "valve_int_2"
                                 ELSE IF k = 3 THEN "valve_int_3" ELSE "valve_int_4",
                        opening_angle |-> IntOpen, closing_angle |-> IntClose]>>,
   exhaust_valves |-> <<[name |-> IF k = 1 THEN "valve_exh" ELSE IF k = 2 THEN "valve_exh_2"
                                  ELSE IF k = 3 THEN "valve_exh_3" ELSE "valve_exh_4",
                         opening_angle |-> ExhOpen, closing_angle |-> ExhClose]>>]

\* The engine file: one entry per cylinder, the firing order, the injector.
EngineCfg(firing_order, inj_type, speed) ==
  [firing_order |-> firing_order,
   cylinders |-> AsSeq([k \in 1..Len(firing_order) |-> CylinderCfg(k)]),
   inj_type |-> inj_type, speed |-> speed]

\* A chain of builder calls; the first call that ends the process decides.
Then(r, op(_)) == IF r.st = "ok" THEN op(r.b) ELSE r

\* A single-cylinder engine between an intake port and an exhaust port that
\* holds exhaust_gas.
EngineSystemWith(inj_type, speed, exhaust_gas) ==
  LET r0 == [st |-> "ok", b |-> SystemBuilder_new]
      a1(b) == add_engine(b, EngineCfg(<<1>>, inj_type, speed), Ambient)
      a2(b) == add_environment(b, "intake_port", Ambient)
      a3(b) == add_environment(b, "exhaust_port", exhaust_gas)
      a4(b) == connect_from_to(b, "valve_int", "intake_port")
      a5(b) == connect_from_to(b, "valve_exh", "exhaust_port")
  IN Then(Then(Then(Then(Then(r0, a1), a2), a3), a4), a5).b

\* The same with the exhaust port above the ambient pressure.
EngineSystem(inj_type, speed) == EngineSystemWith(inj_type, speed, BackPressure)

\* A plenum open to the ambient through an orifice.
ReservoirSystem ==
  LET r0 == [st |-> "ok", b |-> SystemBuilder_new]
      a1(b) == add_environment(b, "ambient", Ambient)
      a2(b) == add_reservoir(b, "res_1", 1, Ambient)
      a3(b) == add_orifice(b, "orif_1", 1, <<"ambient", "res_1">>)
  IN Then(Then(Then(r0, a1), a2), a3).b

\* ------------------------------------------------------------------ Actions

\* The state after a successful System::advance(dt) whose integration
\* returned the temperature levels tz and tc.
AdvanceTo(r) ==
  /\ zero_dim' = r.zero_dim
  /\ engine' = r.engine
  /\ connector' = r.connector
  /\ objs_info' = r.objs_info

\* The samples stored so far (every object stores one per advance).
Samples == IF objs_info = <<>> THEN 0 ELSE objs_info[1].stored_data.last_index

\* system.advance(dt) called by the user between steady-state runs.
Advance ==
  /\ pc = "ready" /\ status = "ok"
  /\ \E dt \in DtSet : \E tz \in ZeroDimTemps : \E tc \in CylinderTemps :
       LET r == System_advance(dt, tz, tc)
       IN IF r.st = "ok"
          THEN /\ MassesInRange(r.zero_dim, r.engine)
               /\ AdvanceTo(r)
               /\ status' = "ok"
          ELSE /\ status' = r.st
               /\ UNCHANGED <<zero_dim, engine, connector, objs_info>>
  /\ UNCHANGED <<engine_connectors_index, zero_dim_connectors_index,
                 connector_objects_index, cycle_start, iterations_counter,
                 time, pc, loc, runs>>

\* system.engine_mut().set_speed(speed) between steady-state runs.
SetSpeed ==
  /\ pc = "ready" /\ status = "ok" /\ engine.present
  /\ \E speed \in Speeds :
       /\ speed # engine.sec_to_rad
       /\ engine' = Engine_set_speed(engine, speed)
  /\ UNCHANGED <<objs_info, zero_dim, connector, engine_connectors_index,
                 zero_dim_connectors_index, connector_objects_index, cycle_start,
                 iterations_counter, time, pc, loc, status, runs>>

\* The time step of the steady-state loop, in ticks: the fixed crank-angle
\* increment over the engine speed, or the fixed step without an engine.

\* A variant with half the crank-angle increment per step, and half the
\* fixed step without an engine.
steady_step_halved ==
  IF engine.present THEN Max(1, SubPerStep \div (2 * engine.sec_to_rad)) ELSE 1

steady_step == IF engine.present THEN SubPerStep \div engine.sec_to_rad
               ELSE 2

\* advance_to_steady_state up to the loop: the stored data, the counters and
\* the time column are reset.

\* A variant of the start of a run that also puts the flows the connectors
\* report back to zero.
SteadyStart_zeroing_flows ==
  /\ pc = "ready" /\ status = "ok"
  /\ objs_info' = AsSeq([k \in 1..Len(objs_info) |->
                     [objs_info[k] EXCEPT !.stored_data =
                        StoreData_reset_data(objs_info[k].stored_data)]])
  /\ cycle_start' = 0
  /\ iterations_counter' = 0
  /\ time' = <<>>
  /\ loc' = NoLoc
  /\ pc' = "loop"
  /\ runs' = runs + 1
  /\ connector' = AsSeq([c \in 1..Len(connector) |->
                     IF connector[c].kind = "Valve" THEN set_flow_to_zero(connector[c])
                     ELSE [connector[c] EXCEPT !.flow_ratio =
                             AsSeq([i \in 1..Len(connector[c].flow_ratio) |-> FlowRatio_new])]])
  /\ UNCHANGED <<engine, zero_dim, engine_connectors_index,
                 zero_dim_connectors_index, connector_objects_index, status>>

SteadyStart ==
  /\ pc = "ready" /\ status = "ok"
  /\ objs_info' = AsSeq([k \in 1..Len(objs_info) |->
                     [objs_info[k] EXCEPT !.stored_data =
                        StoreData_reset_data(objs_info[k].stored_data)]])
  /\ cycle_start' = 0
  /\ iterations_counter' = 0
  /\ time' = <<>>
  /\ loc' = NoLoc
  /\ pc' = "loop"
  /\ runs' = runs + 1
  /\ UNCHANGED <<engine, zero_dim, connector, engine_connectors_index,
                 zero_dim_connectors_index, connector_objects_index, status>>

SteadyBegin == runs < MaxRuns /\ SteadyStart

\* The pushes that end Engine::calc_operational_param.  A variant that
\* leaves the residual-mass series as it is comes first.
push_operat_param_no_residual(op, entry) ==
  [speed |-> Append(op.speed, entry.speed),
   power |-> Append(op.power, entry.power),
   torque |-> Append(op.torque, entry.torque),
   imep |-> Append(op.imep, entry.imep),
   thermal_effic |-> Append(op.thermal_effic, entry.thermal_effic),
   vol_effic |-> Append(op.vol_effic, entry.vol_effic),
   residual_mass |-> op.residual_mass]

push_operat_param(op, entry) ==
  [speed |-> Append(op.speed, entry.speed),
   power |-> Append(op.power, entry.power),
   torque |-> Append(op.torque, entry.torque),
   imep |-> Append(op.imep, entry.imep),
   thermal_effic |-> Append(op.thermal_effic, entry.thermal_effic),
   vol_effic |-> Append(op.vol_effic, entry.vol_effic),
   residual_mass |-> Append(op.residual_mass, entry.residual_mass)]

\* Engine::calc_operational_param over the rows range of the cylinders'
\* stored data; an empty range underflows v.len() - 1.  The trapezoidal
\* work integral is counted in levels: one per interval of the range and
\* cylinder.  The mean residual fraction is kept as the cylinders' fractions
\* it is the mean of.
calc_operational_param(e, range) ==
  LET n == Len(e.cylinders)
      total_work == n * (range[2] - range[1] - 1)
      power == total_work * e.sec_to_rad
      entry ==
        [speed |-> e.sec_to_rad,
         power |-> power,
         torque |-> power \div e.sec_to_rad,
         imep |-> total_work,
         thermal_effic |-> IF \A k \in 1..n : e.cylinders[k].injector.inj_type = "none"
                           THEN 0 ELSE total_work,
         vol_effic |-> SumSeq(AsSeq([k \in 1..n |-> e.cylinders[k].closed_phase_mass])),
         residual_mass |->
            AsSeq([k \in 1..n |-> e.cylinders[k].residual_mass_frac])]
  IN [e EXCEPT !.operat_param = push_operat_param(e.operat_param, entry)]

\* One iteration of the loop of advance_to_steady_state, and, when the
\* iteration breaks out of the loop, the rest of the function.
SteadyIter ==
  /\ pc = "loop" /\ status = "ok"
  /\ LET step == steady_step
         ta1 == loc.total_angle + step * engine.sec_to_rad
         wrap == engine.present /\ ta1 > FourPi
         cycle1 == IF wrap THEN loc.cycle + 1 ELSE loc.cycle
         break_cycle == wrap /\ cycle1 > max_cycles
         cs1 == IF wrap /\ ~break_cycle THEN iterations_counter ELSE cycle_start
         break_time == loc.time > max_time * TicksPerSecond
         loc1 == [loc EXCEPT !.total_angle = IF wrap THEN ta1 - FourPi ELSE ta1,
                             !.cycle = cycle1]
     IN /\ cycle_start' = cs1
        /\ IF break_cycle \/ break_time
           THEN /\ pc' = "ready"
                /\ loc' = loc1
                /\ IF engine.present
                   THEN IF iterations_counter = cs1
                        THEN status' = "panic" /\ engine' = engine
                        ELSE /\ engine' = calc_operational_param(engine,
                                             <<cs1, iterations_counter>>)
                             /\ status' = "ok"
                   ELSE UNCHANGED <<engine, status>>
                /\ UNCHANGED <<zero_dim, connector, objs_info, time,
                               iterations_counter>>
           ELSE \E tz \in ZeroDimTemps : \E tc \in CylinderTemps :
                  LET r == System_advance(step, tz, tc)
                  IN IF r.st # "ok"
                     THEN /\ status' = r.st
                          /\ UNCHANGED <<zero_dim, engine, connector, objs_info,
                                         time, iterations_counter, pc, loc>>
                     ELSE IF iterations_counter >= TimeLen
                     THEN /\ status' = "panic"
                          /\ UNCHANGED <<zero_dim, engine, connector, objs_info,
                                         time, iterations_counter, pc, loc>>
                     ELSE /\ MassesInRange(r.zero_dim, r.engine)
                          /\ AdvanceTo(r)
                          /\ time' = Append(time, loc.time + step)
                          /\ iterations_counter' = iterations_counter + 1
                          /\ loc' = [loc1 EXCEPT !.time = loc.time + step]
                          /\ UNCHANGED <<pc, status>>
  /\ UNCHANGED <<engine_connectors_index, zero_dim_connectors_index,
                 connector_objects_index, runs>>

\* ---------------------------------------------------------- Specifications

\* The systems the user code drives step by step, for MaxSamples calls.
Init ==
  \E b \in {EngineSystem("none", 1), EngineSystem("none", 2),
            EngineSystem("port", 1), ReservoirSystem} : Built(b)

UserAdvance == Samples < MaxSamples /\ Advance

Next == UserAdvance

Spec == Init /\ [][Next]_vars

\* A system advanced call after call, before and after a steady-state run,
\* until its buffers are full.
InitBuffer == Built(ReservoirSystem)

NextBuffer == Advance \/ SteadyBegin \/ SteadyIter

SpecBuffer == InitBuffer /\ [][NextBuffer]_vars

\* The systems taken to steady state.
InitSteady ==
  \E b \in {EngineSystem("none", 2), ReservoirSystem} : Built(b)

NextSteady == SteadyBegin \/ SteadyIter \/ SetSpeed

SpecSteady == InitSteady /\ [][NextSteady]_vars

\* A sweep: advance_to_steady_state called MaxSweeps times on an engine
\* that breathes from and into the ambient.
MaxSweeps == 2

InitSweep == Built(EngineSystemWith("none", 1, Ambient))

SweepBegin == runs < MaxSweeps /\ SteadyStart

NextSweep == SweepBegin \/ SteadyIter

SpecSweep == InitSweep /\ [][NextSweep]_vars

\* The assembly of a system, call by call, its construction, and a first
\* advance of the system built.

InitBuild ==
  /\ objs_info = <<>>
  /\ engine = NoEngine
  /\ zero_dim = <<>>
  /\ connector = <<>>
  /\ engine_connectors_index = <<>>
  /\ zero_dim_connectors_index = <<>>
  /\ connector_objects_index = <<>>
  /\ cycle_start = 0
  /\ iterations_counter = 0
  /\ time = <<>>
  /\ pc = "building"
  /\ loc = NoLoc
  /\ status = "ok"
  /\ runs = 0

\* The names and endpoint lists the builder calls are given.
EnvNames == {"intake_port", "exhaust_port"}

ReservoirNames == {"res_1", "exhaust_port"}

OrificeNames == {"orif_1"}

OrificeConns == {<<"intake_port", "res_1">>, <<"intake_port", "ghost">>,
                 <<"intake_port", "res_1", "exhaust_port">>}

ConnectPairs == {<<"valve_int", "intake_port">>, <<"valve_exh", "exhaust_port">>,
                 <<"valve_exh", "valve_int">>, <<"orif_1", "exhaust_port">>}

\* The state after a builder call with result r: the collections of the
\* builder, or the end of the process.
BuilderCall(r) ==
  /\ pc = "building" /\ status = "ok"
  /\ status' = r.st
  /\ objs_info' = r.b.objs_info
  /\ engine' = r.b.engine
  /\ zero_dim' = r.b.zero_dim
  /\ connector' = r.b.connector
  /\ UNCHANGED <<engine_connectors_index, zero_dim_connectors_index,
                 connector_objects_index, cycle_start, iterations_counter,
                 time, pc, loc, runs>>

AddEngine == BuilderCall(add_engine(builder, EngineCfg(<<1>>, "none", 1), Ambient))

AddEnvironment == \E n \in EnvNames : BuilderCall(add_environment(builder, n, Ambient))

AddReservoir == \E n \in ReservoirNames : BuilderCall(add_reservoir(builder, n, 1, Ambient))

AddOrifice ==
  \E n \in OrificeNames : \E conn \in OrificeConns :
     BuilderCall(add_orifice(builder, n, 1, conn))

ConnectFromTo == \E p \in ConnectPairs : BuilderCall(connect_from_to(builder, p[1], p[2]))

\* SystemBuilder::build_system: System::new, and the exit on its Err.
BuildSystem ==
  /\ pc = "building" /\ status = "ok"
  /\ LET sys == System_new(builder)
     IN IF sys.st = "ok"
        THEN /\ engine_connectors_index' = sys.engine_connectors_index
             /\ zero_dim_connectors_index' = sys.zero_dim_connectors_index
             /\ connector_objects_index' = sys.connector_objects_index
             /\ pc' = "ready"
             /\ status' = "ok"
        ELSE /\ status' = (IF sys.st = "err" THEN "exit" ELSE "panic")
             /\ UNCHANGED <<engine_connectors_index, zero_dim_connectors_index,
                            connector_objects_index, pc>>
  /\ UNCHANGED <<objs_info, engine, zero_dim, connector, cycle_start,
                 iterations_counter, time, loc, runs>>

FirstAdvance == Samples < 1 /\ objs_info # <<>> /\ Advance

NextBuild ==
  \/ AddEngine \/ AddEnvironment \/ AddReservoir \/ AddOrifice
  \/ ConnectFromTo \/ BuildSystem \/ FirstAdvance

SpecBuild == InitBuild /\ [][NextBuild]_vars

\* An engine on its own: every firing order of up to MaxCyl cylinders, and
\* Engine::advance called on it.
RECURSIVE Perms(_)
Perms(S) ==
  IF S = {} THEN {<<>>}
  ELSE UNION {{<<x>> \o p : p \in Perms(S \ {x})} : x \in S}

FiringOrders == UNION {Perms(1..n) : n \in 1..MaxCyl}

InitEngine ==
  /\ \E fo \in FiringOrders : \E speed \in Speeds :
        engine = Engine_new(EngineCfg(fo, "none", speed), Ambient).engine
  /\ objs_info = <<>>
  /\ zero_dim = <<>>
  /\ connector = <<>>
  /\ engine_connectors_index = <<>>
  /\ zero_dim_connectors_index = <<>>
  /\ connector_objects_index = <<>>
  /\ cycle_start = 0
  /\ iterations_counter = 0
  /\ time = <<>>
  /\ pc = "ready"
  /\ loc = NoLoc
  /\ status = "ok"
  /\ runs = 0

EngineAdvance ==
  /\ \E dt \in DtSet : \E tc \in CylinderTemps :
        engine' = Engine_advance(engine, dt, tc)
  /\ UNCHANGED <<objs_info, zero_dim, connector, engine_connectors_index,
                 zero_dim_connectors_index, connector_objects_index, cycle_start,
                 iterations_counter, time, pc, loc, status, runs>>

NextEngine == EngineAdvance

SpecEngine == InitEngine /\ [][NextEngine]_vars

\* A valve on its own between a cylinder and a port: update_flow_ratio is
\* called with every pair of endpoint states, at every crank angle of the
\* cycle (4*PI included, which Cylinder hands out), for windows inside the
\* cycle and windows that straddle the wrap.  The cylinder holds the working
\* gas, the port a gas at temperature level 4 with another cp/cv and gas
\* constant.
ValveWindows ==
  {<<Deg180 \div 2, FourPi \div 2 + 1>>, <<FourPi - 2, Deg180>>,
   <<FourPi \div 2 + 1, 0>>}

PressLevels == {8, 16}

\* Largest backflow mass level followed.
MaxBackflow == 6

ValveProps(Pc, Tc, Pp, angle) ==
  <<[name |-> "cyl_1", pressure |-> Pc, temperature |-> Tc, cp_cv |-> 14,
     gas_const |-> 2, crank_angle |-> angle],
    [name |-> "port_1", pressure |-> Pp, temperature |-> 4, cp_cv |-> 12,
     gas_const |-> 4, crank_angle |-> NoAngle]>>

InitValve ==
  /\ \E w \in ValveWindows :
        connector = <<Valve_connect_to(Valve_new("valve_1", w[1], w[2], "cyl_1"),
                                       "port_1")>>
  /\ loc = [prop |-> <<>>, dt |-> 0, used |-> NoUpstream, before |-> 0]
  /\ pc = "valve"
  /\ objs_info = <<>>
  /\ engine = NoEngine
  /\ zero_dim = <<>>
  /\ engine_connectors_index = <<>>
  /\ zero_dim_connectors_index = <<>>
  /\ connector_objects_index = <<>>
  /\ cycle_start = 0
  /\ iterations_counter = 0
  /\ time = <<>>
  /\ status = "ok"
  /\ runs = 0

\* One call of Valve::update_flow_ratio; loc keeps the arguments, the
\* accumulator before the call and the locals T_up, k, R.
ValveUpdate ==
  /\ \E Pc \in PressLevels, Pp \in PressLevels, Tc \in TempLevels,
        angle \in 0..FourPi, dt \in DtSet :
        LET prop == ValveProps(Pc, Tc, Pp, angle)
            r == Valve_update_flow_ratio(connector[1], prop, dt)
        IN /\ r.ok
           /\ r.conn.backflow_mass <= MaxBackflow
           /\ connector' = <<r.conn>>
           /\ loc' = [prop |-> prop, dt |-> dt, used |-> r.used,
                      before |-> connector[1].backflow_mass]
  /\ UNCHANGED <<objs_info, engine, zero_dim, engine_connectors_index,
                 zero_dim_connectors_index, connector_objects_index, cycle_start,
                 iterations_counter, time, pc, status, runs>>

NextValve == ValveUpdate

SpecValve == InitValve /\ [][NextValve]_vars

\* =================================================================== Claims

\* What the claims speak about.

\* A step of the state machine in which System::advance ran to its end.
AdvanceStep == Samples' = Samples + 1

\* The time increments an advance call is given, in ticks.
StepDts == DtSet \cup {steady_step}

\* The flow connector c reports for its e-th endpoint.
EndpointFlow(c, e) ==
  IF c.kind = "Valve" THEN c.flow_ratio[e].flow ELSE c.flow_ratio[e]

\* The mass flow the connectors conn report for the object obj_name through
\* the connectors of index_list.
ReportedMassFlow(conn, index_list, obj_name) ==
  FlowRatio_sum(AsSeq([k \in 1..Len(index_list) |->
     Conn_get_flow_ratio(conn[index_list[k]], obj_name).flow])).mass_flow

\* The mass flow a control volume holds for its next integration.
StoredFlowZeroDim(z) == z.flow_ratio.mass_flow

StoredFlowCylinder(c) ==
  c.int_valves.flow_info.mass_flow + c.exh_valves.flow_info.mass_flow

\* C1: in every advance call each control volume is integrated with the flow
\* it stored at the end of the previous call (zero before the first call),
\* the connectors then recompute their flows from the integrated states, and
\* the recomputed flows are stored for the next call only.
C1_StaleFlowStep(dt) ==
  /\ \A i \in 1..Len(zero_dim) :
        zero_dim[i].kind = "Reservoir" =>
          /\ zero_dim'[i].mass = zero_dim[i].mass + dt * StoredFlowZeroDim(zero_dim[i])
          /\ StoredFlowZeroDim(zero_dim[i]) =
               ReportedMassFlow(connector, zero_dim_connectors_index[i], zero_dim[i].name)
          /\ StoredFlowZeroDim(zero_dim'[i]) =
               ReportedMassFlow(connector', zero_dim_connectors_index[i], zero_dim[i].name)
  /\ \A k \in 1..Len(engine.cylinders) :
        /\ engine'.cylinders[k].mass =
             engine.cylinders[k].mass + dt * StoredFlowCylinder(engine.cylinders[k])
        /\ StoredFlowCylinder(engine.cylinders[k]) =
             ReportedMassFlow(connector, engine_connectors_index[k],
                              engine.cylinders[k].name)
        /\ StoredFlowCylinder(engine'.cylinders[k]) =
             ReportedMassFlow(connector', engine_connectors_index[k],
                              engine.cylinders[k].name)
  /\ \A c \in 1..Len(connector) :
        connector'[c] =
          Conn_update_flow_ratio(connector[c],
                                 basic_properties(zero_dim', engine', c), dt).conn

C1_StaleFlow ==
  [][AdvanceStep => \E dt \in StepDts : C1_StaleFlowStep(dt)]_vars

\* A control volume whose mass a stored, nonzero flow has changed, and whose
\* connector has since reported a different flow.
C1_Witness ==
  /\ Samples >= 2
  /\ \E k \in 1..Len(engine.cylinders) :
        /\ engine.cylinders[k].phase = "open"
        /\ engine.cylinders[k].mass # Cylinder_new("c", Deg180, <<>>, <<>>, "none",
                                                   Ambient, 1).mass
        /\ StoredFlowCylinder(engine.cylinders[k]) # 0

\* C2: for every connector with two endpoints, in every state, the mass flow
\* and the enthalpy flow reported for one endpoint are the exact negation of
\* those reported for the other.
C2_FlowsNegated ==
  \A c \in 1..Len(connector) :
     Len(connector[c].connecting) = 2 =>
       /\ EndpointFlow(connector[c], 1).mass_flow =
            -EndpointFlow(connector[c], 2).mass_flow
       /\ EndpointFlow(connector[c], 1).enthalpy_flow =
            -EndpointFlow(connector[c], 2).enthalpy_flow

\* An open valve reports a nonzero flow while the other valve of the
\* cylinder is closed.
C2_Witness ==
  /\ Samples >= 1
  /\ \E c, d \in 1..Len(connector) :
        /\ connector[c].kind = "Valve" /\ connector[d].kind = "Valve"
        /\ EndpointFlow(connector[c], 1).enthalpy_flow # 0
        /\ connector[d].throat_area = 0
        /\ ~is_open(connector[d], connector[d].angle)

\* C5: in every advance a cylinder takes the closed-phase step exactly when
\* the summed intake flow and the summed exhaust flow it holds, the ones its
\* connectors reported last, are both zero, and the open-phase step
\* otherwise.
C5_PhaseStep ==
  \A k \in 1..Len(engine.cylinders) :
     LET c == engine.cylinders[k]
         both_zero == /\ c.int_valves.flow_info.mass_flow = 0
                      /\ c.exh_valves.flow_info.mass_flow = 0
     IN /\ engine'.cylinders[k].phase = (IF both_zero THEN "closed" ELSE "open")
        /\ c.int_valves.flow_info.mass_flow =
             SumSeq(AsSeq([i \in 1..Len(c.int_valves.basic_info) |->
                Conn_get_flow_ratio(
                   connector[Position(Names(connector), c.int_valves.basic_info[i].name)],
                   c.name).flow.mass_flow]))
        /\ c.exh_valves.flow_info.mass_flow =
             SumSeq(AsSeq([i \in 1..Len(c.exh_valves.basic_info) |->
                Conn_get_flow_ratio(
                   connector[Position(Names(connector), c.exh_valves.basic_info[i].name)],
                   c.name).flow.mass_flow]))

C5_PhaseByFlow == [][AdvanceStep => C5_PhaseStep]_vars

\* A cylinder took the closed-phase step at a crank angle inside the window
\* of one of its valves.
C5_Witness ==
  /\ Samples >= 2
  /\ \E k \in 1..Len(engine.cylinders) : \E c \in 1..Len(connector) :
        /\ engine.cylinders[k].phase = "closed"
        /\ connector[c].kind = "Valve"
        /\ connector[c].connecting[1] = engine.cylinders[k].name
        /\ is_open(connector[c], connector[c].angle)

\* C6: a closed-phase step leaves the cylinder mass as it is; only an
\* open-phase step changes it, by the net valve mass flow times dt.
C6_MassStep(dt) ==
  \A k \in 1..Len(engine.cylinders) :
     LET c == engine.cylinders[k]
         d == engine'.cylinders[k]
     IN /\ d.phase = "closed" => d.mass = c.mass
        /\ d.phase = "open" =>
             d.mass = c.mass + dt * (c.int_valves.flow_info.mass_flow
                                     + c.exh_valves.flow_info.mass_flow)
        /\ d.mass # c.mass => d.phase = "open"

C6_MassFrame == [][AdvanceStep => \E dt \in StepDts : C6_MassStep(dt)]_vars

\* A cylinder lost mass in an open-phase step and then kept it in a
\* closed-phase step.
C6_Witness ==
  /\ Samples >= 3
  /\ \E k \in 1..Len(engine.cylinders) :
        /\ engine.cylinders[k].phase = "closed"
        /\ engine.cylinders[k].mass # Cylinder_new("c", Deg180, <<>>, <<>>, "none",
                                                   Ambient, 1).mass

\* C10: a sample is appended to a buffer only into the free row after the
\* samples it holds, inside the buffer; an advance call that finds a buffer
\* full ends the process and stores nothing; the time column is written
\* inside its rows.  No sample is dropped or overwritten.
C10_BufferStep ==
  /\ \A k \in 1..Len(objs_info) :
        LET sd == objs_info[k].stored_data
            sd2 == objs_info'[k].stored_data
        IN /\ sd.data = 0..(sd.last_index - 1)
           /\ sd.last_index < MAX_ARRAY_LEN
           /\ sd2 # sd =>
                \/ sd2 = StoreData_new
                \/ /\ sd.last_index < MAX_ARRAY_LEN - 1
                   /\ sd2.last_index = sd.last_index + 1
                   /\ sd2.data = sd.data \cup {sd.last_index}
           /\ (sd.last_index = MAX_ARRAY_LEN - 1 /\ pc = "ready" /\ pc' = "ready") =>
                status' = "exit"
  /\ time' # time =>
        \/ time' = <<>>
        \/ Len(time) < TimeLen /\ SubSeq(time', 1, Len(time)) = time
                               /\ Len(time') = Len(time) + 1

C10_NoSilentOverflow == [][C10_BufferStep]_vars

\* An advance call found the buffers full, after a steady-state run, and
\* ended the process.
C10_Witness ==
  /\ status = "exit"
  /\ runs = 1
  /\ \A k \in 1..Len(objs_info) :
        objs_info[k].stored_data.last_index = MAX_ARRAY_LEN - 1

\* C3 (as the specification states it): a steady-state run takes at most as
\* many advance steps as 10 cycles hold.
C3_AtMostTenCycles == iterations_counter <= max_cycles * StepsPerCycle

\* C4 (as the specification states it): when a steady-state run of a system
\* with an engine has returned, [cycle_start, iterations_counter) is the
\* last complete cycle that was simulated.
C4_RangeIsLastCycle ==
  (pc = "ready" /\ runs > 0 /\ status = "ok" /\ engine.present) =>
     /\ iterations_counter = (iterations_counter \div StepsPerCycle) * StepsPerCycle
     /\ cycle_start = iterations_counter - StepsPerCycle

\* C7 (as the specification states it): the crank angle of every cylinder is
\* in [0, 4 pi), from construction on.
C7_AngleInCycle ==
  \A k \in 1..Len(engine.cylinders) : engine.cylinders[k].angle \in 0..(FourPi - 1)

\* C8 (as the specification states it): every connector of a System that
\* was built has exactly two endpoints.
C8_BuiltWithTwoEndpoints ==
  pc = "ready" => \A c \in 1..Len(connector) : Len(connector[c].connecting) = 2

\* An element or a cylinder that no connector names, or a connector endpoint
\* that is the name of no element and of no cylinder.
Dangling(b) ==
  \/ \E i \in 1..Len(b.zero_dim) : get_connectors_index(b, b.zero_dim[i].name) = <<>>
  \/ \E k \in 1..Len(b.engine.cylinders) :
        get_connectors_index(b, b.engine.cylinders[k].name) = <<>>
  \/ \E c \in 1..Len(b.connector) : \E e \in 1..Len(b.connector[c].connecting) :
        /\ Position(Names(b.zero_dim), b.connector[c].connecting[e]) = 0
        /\ Position(Names(b.engine.cylinders), b.connector[c].connecting[e]) = 0

\* C9 (as the specification states it): System::new returns its Err for
\* every assembly with a dangling element, cylinder or endpoint, with and
\* without an engine.
C9_DanglingIsErr ==
  (pc = "building" /\ status = "ok" /\ Dangling(builder)) =>
     System_new(builder).st = "err"


\* ---- valve on its own (SpecValve)

\* The mass flow the valve reports for the cylinder: positive into it.
CylinderFlow(v) == v.flow_ratio[1].flow.mass_flow

\* A step in which update_flow_ratio left a nonzero flow.
ValveFlowStep == loc'.prop # <<>> /\ CylinderFlow(connector'[1]) # 0

\* C11: the backflow accumulator is never negative, and an update that
\* leaves a nonzero flow changes it by minus the flow into the cylinder
\* times dt, floored at zero.
C11_BackflowFloored ==
  [][/\ connector'[1].backflow_mass >= 0
     /\ ValveFlowStep =>
          LET b == connector[1].backflow_mass
                     - CylinderFlow(connector'[1]) * loc'.dt
          IN connector'[1].backflow_mass = Max(b, 0)]_vars

\* The floor acted: gas entering the cylinder outweighed the accumulator.
C11_Witness ==
  /\ pc = "valve" /\ loc.prop # <<>>
  /\ loc.before > 0
  /\ CylinderFlow(connector[1]) * loc.dt > loc.before
  /\ connector[1].backflow_mass = 0

\* The 50/50 blend of the two endpoint states and the state of endpoint i.
BlendOf(prop) ==
  [T_up |-> (prop[1].temperature + prop[2].temperature) \div 2,
   k |-> (prop[1].cp_cv + prop[2].cp_cv) \div 2,
   R |-> (prop[1].gas_const + prop[2].gas_const) \div 2]

PureOf(prop, i) ==
  [T_up |-> prop[i].temperature, k |-> prop[i].cp_cv, R |-> prop[i].gas_const]

\* The upstream endpoint of a nonzero flow: the one that loses mass.
UpstreamOf(v) == IF CylinderFlow(v) < 0 THEN 1 ELSE 2

\* C12 as stated: whenever a nonzero flow is computed while the accumulator
\* is positive the upstream state used is the 50/50 blend, and with a zero
\* accumulator it is the pure upstream state.
C12_BlendWhilePositive ==
  [][ValveFlowStep =>
       IF connector[1].backflow_mass > 0
       THEN loc'.used = BlendOf(loc'.prop)
       ELSE loc'.used = PureOf(loc'.prop, UpstreamOf(connector'[1]))]_vars

\* C12 amended: the blend is used when the accumulator is positive and the
\* flow enters the cylinder; with a zero accumulator, or a flow leaving the
\* cylinder, the pure upstream state is used.
C12_BlendOnReturn ==
  [][ValveFlowStep =>
       IF connector[1].backflow_mass > 0 /\ CylinderFlow(connector'[1]) > 0
       THEN loc'.used = BlendOf(loc'.prop)
       ELSE loc'.used = PureOf(loc'.prop, UpstreamOf(connector'[1]))]_vars

\* Gas returns to the cylinder after backflow and the blend, which differs
\* from the port's state, is used.
C12_Witness ==
  /\ pc = "valve" /\ loc.prop # <<>>
  /\ loc.before > 0
  /\ CylinderFlow(connector[1]) > 0
  /\ loc.used = BlendOf(loc.prop)
  /\ loc.used # PureOf(loc.prop, 2)

\* The crank angle lies in the window from opening to closing modulo one
\* cycle.
InWindow(angle, opening, closing) ==
  ((angle - opening) % FourPi) <= ((closing - opening) % FourPi)

\* C13: at every angle outside the window, straddling windows included,
\* both endpoint flows and the throat area are zero.
C13_ClosedOutsideWindow ==
  (pc = "valve" /\ loc.prop # <<>>) =>
    LET v == connector[1]
    IN ~InWindow(v.angle, v.opening_angle, v.closing_angle) =>
         /\ \A e \in 1..Len(v.flow_ratio) : v.flow_ratio[e].flow = FlowRatio_new
         /\ v.throat_area = 0

\* A straddling window, an angle outside it, a pressure difference across
\* the valve and no flow; and the same valve flows inside its window.
C13_Witness ==
  /\ pc = "valve" /\ loc.prop # <<>>
  /\ connector[1].closing_angle < connector[1].opening_angle
  /\ ~InWindow(connector[1].angle, connector[1].opening_angle,
               connector[1].closing_angle)
  /\ loc.prop[1].pressure # loc.prop[2].pressure
  /\ CylinderFlow(connector[1]) = 0
  /\ connector[1].throat_area = 0

\* ---- builder (SpecBuild)

\* The names of the objects the builder holds: cylinders, zero-dimensional
\* elements and connectors (valves and orifices).
ObjectNames(b) == Names(b.engine.cylinders) \o Names(b.zero_dim) \o Names(b.connector)

PairwiseDistinct(s) == \A i, j \in 1..Len(s) : s[i] = s[j] => i = j

\* The result of each adding call when it is given name n; the engine file
\* names n as its cylinder or as one of its valves.
AddingCalls(b, n) ==
  LET cyl == CylinderCfg(1)
      as_cyl == [EngineCfg(<<1>>, "none", 1) EXCEPT !.cylinders[1].name = n]
      as_valve == [EngineCfg(<<1>>, "none", 1) EXCEPT
                     !.cylinders[1].intake_valves[1].name = n]
  IN {add_environment(b, n, Ambient), add_reservoir(b, n, 1, Ambient),
      add_orifice(b, n, 1, <<"intake_port", "res_1">>),
      add_engine(b, as_cyl, Ambient), add_engine(b, as_valve, Ambient)}

\* C14: while no builder call has ended in an error the names of all
\* objects are pairwise distinct, and every adding call given a name that
\* already exists ends the process.
C14_NamesDistinct ==
  (pc = "building" /\ status = "ok") =>
     /\ PairwiseDistinct(ObjectNames(builder))
     /\ PairwiseDistinct(Names(objs_info))
     /\ \A i \in 1..Len(objs_info) :
           \A r \in AddingCalls(builder, objs_info[i].name) : r.st = "exit"

\* Objects of every kind have been added.
C14_Witness ==
  /\ pc = "building" /\ status = "ok"
  /\ engine.present
  /\ \E i \in 1..Len(zero_dim) : zero_dim[i].kind = "Environment"
  /\ \E i \in 1..Len(zero_dim) : zero_dim[i].kind = "Reservoir"
  /\ \E i \in 1..Len(connector) : connector[i].kind = "Orifice"

\* ---- environments (Spec)

\* The gas each Environment of the systems of Init was constructed with.
ConstructionGas(name) == IF name = "exhaust_port" THEN BackPressure ELSE Ambient

\* C15: after any sequence of advance calls an Environment holds the gas
\* state it was constructed with.
C15_EnvironmentConstant ==
  \A i \in 1..Len(zero_dim) :
     zero_dim[i].kind = "Environment" =>
       zero_dim[i].gas = ConstructionGas(zero_dim[i].name)

\* Several advance calls were made and a connector reports a nonzero flow
\* toward an Environment.
C15_Witness ==
  /\ Samples >= 2
  /\ \E i \in 1..Len(zero_dim) : \E c \in 1..Len(connector) :
        /\ zero_dim[i].kind = "Environment"
        /\ Conn_get_flow_ratio(connector[c], zero_dim[i].name).ok
        /\ Conn_get_flow_ratio(connector[c], zero_dim[i].name).flow.mass_flow # 0

\* ---- performance history (SpecSweep)

\* The seven series of the performance history.
Series(op) ==
  <<op.speed, op.power, op.torque, op.imep, op.thermal_effic, op.vol_effic,
    op.residual_mass>>

IsPrefix(s, t) == Len(s) <= Len(t) /\ SubSeq(t, 1, Len(s)) = s

\* C16: when a call of advance_to_steady_state on a system with an engine
\* has returned, every series holds one entry per call made so far, and no
\* step changes an entry that a series already holds.
C16_OneEntryPerCall ==
  [][/\ (pc' = "ready" /\ status' = "ok" /\ engine'.present) =>
          \A i \in 1..7 : Len(Series(engine'.operat_param)[i]) = runs'
     /\ \A i \in 1..7 : IsPrefix(Series(engine.operat_param)[i],
                                   Series(engine'.operat_param)[i])]_vars

\* Two calls have returned; the second entry was appended to the first.
C16_Witness ==
  /\ pc = "ready" /\ status = "ok" /\ engine.present /\ runs = 2
  /\ \A i \in 1..7 : Len(Series(engine.operat_param)[i]) = 2

\* ------------------------------------------------------------ reaction::gas

\* An f64 that is a number, in hundredths for a mole fraction, or NaN.
F64(v) == [nan |-> FALSE, v |-> v]

NaN == [nan |-> TRUE, v |-> 0]

f64_add(a, b) == IF a.nan \/ b.nan THEN NaN ELSE F64(a.v + b.v)

f64_sub(a, b) == IF a.nan \/ b.nan THEN NaN ELSE F64(a.v - b.v)

f64_abs(a) == IF a.nan THEN NaN ELSE F64(IF a.v < 0 THEN 0 - a.v ELSE a.v)

\* a > b: false when either side is NaN.
f64_gt(a, b) == ~a.nan /\ ~b.nan /\ a.v > b.v

RECURSIVE f64_sum(_)
f64_sum(X) == IF X = <<>> THEN F64(0) ELSE f64_add(Head(X), f64_sum(Tail(X)))

\* str::parse::<f64> on the decimal fields the composition strings carry.
parse_f64(field) ==
  CASE field = "0.21" -> [ok |-> TRUE, val |-> F64(21)]
    [] field = "0.79" -> [ok |-> TRUE, val |-> F64(79)]
    [] field = "1.0" -> [ok |-> TRUE, val |-> F64(100)]
    [] field = "NaN" -> [ok |-> TRUE, val |-> NaN]
    [] OTHER -> [ok |-> FALSE, val |-> F64(0)]

\* The tolerance 1e-8 of the sum test is below one hundredth.
SumTolerance == 0

\* PolynomInterp::poly_interp_to_therm_interp: the two ranges of a species
\* become a ThermoInterp that keeps the joint Tmid and the two coefficient
\* sets; Tmin of the low range and Tmax of the high range go nowhere.
poly_interp_to_therm_interp(poly, specie_name) ==
  IF poly[1].Tmax # poly[2].Tmin
  THEN [st |-> "panic", thermo |-> <<>>]
  ELSE [st |-> "ok",
        thermo |-> [specie |-> specie_name, Tmid |-> poly[1].Tmax,
                    coeffs_low |-> poly[1].coeffs,
                    coeffs_high |-> poly[2].coeffs]]

\* ThermoInterp::calc_thermo_properties, cp/R part, of a polynomial of
\* degree one.
calc_thermo_properties(coeff, temp) == coeff[1] + coeff[2] * temp

\* The selection Gas::update_prop makes per species.
coeffs_for(thermo_interp, T) ==
  IF T < thermo_interp.Tmid THEN thermo_interp.coeffs_low
  ELSE thermo_interp.coeffs_high

\* Gas::update_prop: cp/R of every species at the temperature of the gas.
Gas_update_prop(gas) ==
  [gas EXCEPT !.cp_array =
     AsSeq([i \in 1..Len(gas.thermo_interp) |->
              calc_thermo_properties(coeffs_for(gas.thermo_interp[i], gas.T),
                                     gas.T)])]

\* Gas::TP.
Gas_TP(gas, temp, press) ==
  [st |-> "ok", gas |-> Gas_update_prop([gas EXCEPT !.T = temp, !.P = press])]

\* Gas::break_str_into_X_array.  The string is taken as split already: a
\* sequence of words without commas or quotes, each the sequence of its
\* fields between colons.
RECURSIVE break_words(_, _, _)
break_words(species, words, X) ==
  IF words = <<>> THEN [st |-> "ok", X |-> X]
  ELSE LET specie == Head(words)
       IN IF Len(specie) # 2 THEN [st |-> "exit", X |-> X]
          ELSE IF Position(species, specie[1]) = 0
          THEN [st |-> "exit", X |-> X]
          ELSE IF ~parse_f64(specie[2]).ok THEN [st |-> "panic", X |-> X]
          ELSE break_words(species, Tail(words),
                           [X EXCEPT ![Position(species, specie[1])] =
                                        parse_f64(specie[2]).val])

\* The test that ends break_str_into_X_array.
sum_is_off(X) ==
  f64_gt(f64_abs(f64_sub(f64_sum(X), F64(100))), F64(SumTolerance))

break_str_into_X_array(gas, words) ==
  LET r == break_words(gas.species, words,
                       AsSeq([i \in 1..Len(gas.species) |-> F64(0)]))
  IN IF r.st # "ok" THEN r
     ELSE IF sum_is_off(r.X) THEN [st |-> "exit", X |-> r.X]
     ELSE r

\* Gas::X.
Gas_X(gas, words) ==
  LET r == break_str_into_X_array(gas, words)
  IN IF r.st # "ok" THEN [st |-> r.st, gas |-> gas]
     ELSE [st |-> "ok", gas |-> Gas_update_prop([gas EXCEPT !.mole_frac = r.X])]

\* Gas::mole_frac_of.
mole_frac_of(gas, specie) ==
  IF Position(gas.species, specie) = 0 THEN [st |-> "exit", val |-> F64(0)]
  ELSE [st |-> "ok", val |-> gas.mole_frac[Position(gas.species, specie)]]

\* Gas::new on the content of a gas file.
Gas_new(file) ==
  LET th == AsSeq([i \in 1..Len(file.species) |->
                     poly_interp_to_therm_interp(file.thermo, file.species[i])])
  IN IF \E i \in 1..Len(th) : th[i].st # "ok"
     THEN [st |-> "panic", gas |-> <<>>]
     ELSE Gas_TP([name |-> file.name, species |-> file.species,
                  mole_frac |-> file.mol_frac,
                  thermo_interp |-> AsSeq([i \in 1..Len(th) |-> th[i].thermo]),
                  T |-> 0, P |-> 0, cp_array |-> <<>>],
                 file.ini_temp, file.ini_press)

\* ---- the gas files and calls followed (SpecGas)

\* Largest temperature level a gas is set to.
MaxTemp == 9

\* Largest number of words of a composition string.
MaxWords == 3

\* The two temperature ranges of a species: the low range from Tmin to Tmid
\* and the high range from Tmid to Tmax, continuous in cp/R at Tmid.
ThermoRanges ==
  {<<[Tmin |-> 2, Tmax |-> 5, coeffs |-> <<3, 1>>],
     [Tmin |-> 5, Tmax |-> 8, coeffs |-> <<8, 0>>]>>,
   <<[Tmin |-> 3, Tmax |-> 6, coeffs |-> <<2, 1>>],
     [Tmin |-> 6, Tmax |-> 8, coeffs |-> <<8, 0>>]>>}

GasFiles ==
  {[name |-> "air", species |-> <<"O2", "N2", "CO2">>,
    ini_temp |-> 3, ini_press |-> 8,
    mol_frac |-> <<F64(21), F64(79), F64(0)>>, thermo |-> th] :
     th \in ThermoRanges}

Words ==
  {<<n, v>> : n \in {"O2", "N2", "Ar"}, v \in {"0.21", "0.79", "1.0", "NaN", "abc"}}
    \cup {<<"O2">>}

Strings == UNION {[1..n -> Words] : n \in 0..MaxWords}

NoCall == [op |-> "none", file |-> <<>>, temp |-> 0, press |-> 0, words |-> <<>>]

InitGas ==
  /\ \E file \in GasFiles :
       loc = [gas |-> Gas_new(file).gas, call |-> [NoCall EXCEPT !.file = file]]
  /\ pc = "gas"
  /\ status = "ok"
  /\ objs_info = <<>>
  /\ engine = NoEngine
  /\ zero_dim = <<>>
  /\ connector = <<>>
  /\ engine_connectors_index = <<>>
  /\ zero_dim_connectors_index = <<>>
  /\ connector_objects_index = <<>>
  /\ cycle_start = 0
  /\ iterations_counter = 0
  /\ time = <<>>
  /\ runs = 0

\* gas.TP(temp, press) on a gas no call was made on yet.
GasTP ==
  /\ pc = "gas" /\ loc.call.op = "none"
  /\ \E temp \in 1..MaxTemp, press \in PressLevels :
       LET r == Gas_TP(loc.gas, temp, press)
       IN /\ loc' = [gas |-> r.gas,
                     call |-> [loc.call EXCEPT !.op = "TP", !.temp = temp,
                                               !.press = press]]
          /\ status' = r.st
  /\ UNCHANGED <<objs_info, engine, zero_dim, connector, engine_connectors_index,
                 zero_dim_connectors_index, connector_objects_index, cycle_start,
                 iterations_counter, time, pc, runs>>

\* gas.X(string) on a gas no call was made on yet.
GasX ==
  /\ pc = "gas" /\ loc.call.op = "none"
  /\ \E str \in Strings :
       LET r == Gas_X(loc.gas, AsSeq(str))
       IN /\ loc' = [gas |-> r.gas,
                     call |-> [loc.call EXCEPT !.op = "X", !.words = AsSeq(str)]]
          /\ status' = r.st
  /\ UNCHANGED <<objs_info, engine, zero_dim, connector, engine_connectors_index,
                 zero_dim_connectors_index, connector_objects_index, cycle_start,
                 iterations_counter, time, pc, runs>>

NextGas == GasTP \/ GasX

SpecGas == InitGas /\ [][NextGas]_vars

\* ---- temperature range and composition of a gas (SpecGas)

\* The temperature lies in the range the two polynomials of the species
\* cover.
InPolynomialRange(poly, T) == poly[1].Tmin <= T /\ T <= poly[2].Tmax

\* C17: a Gas::TP call with a temperature below the minimum of the low
\* range or above the maximum of the high range of a species ends the
\* process; no property is evaluated with a polynomial outside its range.
C17_OutOfRangeIsFatal ==
  (pc = "gas" /\ loc.call.op = "TP"
     /\ ~InPolynomialRange(loc.call.file.thermo, loc.call.temp))
    => status # "ok"

\* The species a composition string names.
NamedSpecies(words) == {words[j][1] : j \in 1..Len(words)}

\* C18: a Gas::X call returns only if every species the string names is in
\* the species table and the mole fractions set sum to one within the
\* tolerance; then every named species reads back the value the string gives
\* it and every other species reads zero.
C18_CompositionRoundTrip ==
  (pc = "gas" /\ loc.call.op = "X" /\ status = "ok") =>
    LET words == loc.call.words
        gas == loc.gas
    IN /\ \A n \in NamedSpecies(words) : Position(gas.species, n) # 0
       /\ ~f64_sum(gas.mole_frac).nan
       /\ ~sum_is_off(gas.mole_frac)
       /\ \A j \in 1..Len(words) :
            mole_frac_of(gas, words[j][1]).val = parse_f64(words[j][2]).val
       /\ \A i \in 1..Len(gas.species) :
            gas.species[i] \notin NamedSpecies(words) =>
              mole_frac_of(gas, gas.species[i]).val = F64(0)

\* ----------------------------------------------------- reaction::combustion

RECURSIVE Pow(_, _)
Pow(b, e) == IF e = 0 THEN 1 ELSE b * Pow(b, e - 1)

\* One, for a value between zero and one, in levels.
ExpScale == 1024

\* exp(-x) in levels of 1/ExpScale: one at zero, halved per unit of x, and
\* zero once it is below one level.
exp_neg(x) == IF x > 10 THEN 0 ELSE ExpScale \div Pow(2, x)

WiebeFunction_new(a, m, comb_duration) ==
  [m |-> m, a |-> a, comb_duration |-> comb_duration]

\* The angle since ignition, wrapped by one cycle when it is negative.
wiebe_d_angle(angle, ini_combustion) ==
  IF angle - ini_combustion >= 0 THEN angle - ini_combustion
  ELSE angle - ini_combustion + FourPi

\* a * (d_angle / comb_duration)^(m + 1), rounded down.
wiebe_exponent(w, d_angle) ==
  (w.a * Pow(d_angle, w.m + 1)) \div Pow(w.comb_duration, w.m + 1)

\* WiebeFunction::burned_mass_frac, in levels of 1/ExpScale.
burned_mass_frac(w, angle, ini_combustion) ==
  ExpScale - exp_neg(wiebe_exponent(w, wiebe_d_angle(angle, ini_combustion)))

\* WiebeFunction::derivative_burned_mass_frac, in levels of
\* 1 / (ExpScale * comb_duration^(m + 1)).
derivative_burned_mass_frac(w, angle, ini_combustion) ==
  LET d_angle == wiebe_d_angle(angle, ini_combustion)
  IN w.a * (w.m + 1) * Pow(d_angle, w.m) * exp_neg(wiebe_exponent(w, d_angle))

\* 0.99 * (-1.602 + 4.6509 afr - 2.0746 afr^2) in hundredths, afr in tenths.
comb_eficiency_of(afr) ==
  (99 * ((0 - 16020) + 4651 * afr - 207 * afr * afr)) \div 10000

\* TwoZoneCombustion::new: the window of the combustion; the burned-zone
\* composition is left out.
TwoZoneCombustion_new(ign_angle, afr, wiebe) ==
  LET end0 == ign_angle + wiebe.comb_duration
      end_combustion == IF end0 > FourPi THEN end0 - FourPi ELSE end0
  IN [ini_combustion |-> ign_angle,
      end_combustion |-> end_combustion,
      delta_angle |-> end_combustion - ign_angle,
      comb_eficiency |-> comb_eficiency_of(afr),
      is_comb_ready |-> FALSE,
      wiebe_function |-> WiebeFunction_new(wiebe.a, wiebe.m, wiebe.comb_duration)]

\* TwoZoneCombustion::has_started.  A variant that makes the test of a
\* window across the end of the cycle for every window comes first.
has_started_wrapped_always(c, angle) ==
  ~(angle <= c.ini_combustion /\ angle >= c.end_combustion)

has_started(c, angle) ==
  IF c.delta_angle < 0
  THEN ~(angle <= c.ini_combustion /\ angle >= c.end_combustion)
  ELSE ~(angle <= c.ini_combustion \/ angle >= c.end_combustion)

\* Lower heating value of the fuel, in levels.
FuelLhv == 1

\* TwoZoneCombustion::get_heat_release_rate: the rate and the model after
\* the call.

\* A variant that leaves is_comb_ready as it is outside the window.
get_heat_release_rate_latched(c, fuel_mass, angle) ==
  IF has_started(c, angle)
  THEN [hrr |-> c.comb_eficiency * fuel_mass * FuelLhv
                  * derivative_burned_mass_frac(c.wiebe_function, angle,
                                                c.ini_combustion),
        comb |-> [c EXCEPT !.is_comb_ready = TRUE]]
  ELSE [hrr |-> 0, comb |-> c]

get_heat_release_rate(c, fuel_mass, angle) ==
  IF has_started(c, angle)
  THEN [hrr |-> c.comb_eficiency * fuel_mass * FuelLhv
                  * derivative_burned_mass_frac(c.wiebe_function, angle,
                                                c.ini_combustion),
        comb |-> [c EXCEPT !.is_comb_ready = TRUE]]
  ELSE [hrr |-> 0, comb |-> [c EXCEPT !.is_comb_ready = FALSE]]

\* ---- the combustion models and calls followed (SpecCombustion)

WiebeShapes == {[a |-> 7, m |-> 1], [a |-> 7, m |-> 2]}

FuelMasses == {0, 1}

InitCombustion ==
  /\ \E ign \in 0..(FourPi - 1), dur \in 1..FourPi, w \in WiebeShapes :
       loc = [comb |-> TwoZoneCombustion_new(ign, 10,
                          WiebeFunction_new(w.a, w.m, dur)),
              op |-> "new", angle |-> 0, fuel_mass |-> 0, hrr |-> 0, xb |-> 0]
  /\ pc = "combustion"
  /\ status = "ok"
  /\ objs_info = <<>>
  /\ engine = NoEngine
  /\ zero_dim = <<>>
  /\ connector = <<>>
  /\ engine_connectors_index = <<>>
  /\ zero_dim_connectors_index = <<>>
  /\ connector_objects_index = <<>>
  /\ cycle_start = 0
  /\ iterations_counter = 0
  /\ time = <<>>
  /\ runs = 0

\* combustion.get_heat_release_rate(gas, fuel_mass, angle), as the cylinder
\* calls it with its crank angle.
HeatReleaseRate ==
  /\ pc = "combustion"
  /\ \E angle \in 0..FourPi, fuel_mass \in FuelMasses :
       LET r == get_heat_release_rate(loc.comb, fuel_mass, angle)
       IN loc' = [comb |-> r.comb, op |-> "hrr", angle |-> angle,
                  fuel_mass |-> fuel_mass, hrr |-> r.hrr, xb |-> 0]
  /\ UNCHANGED <<objs_info, engine, zero_dim, connector, engine_connectors_index,
                 zero_dim_connectors_index, connector_objects_index, cycle_start,
                 iterations_counter, time, pc, status, runs>>

\* wiebe_function.burned_mass_frac(angle, ini_combustion).
BurnedMassFrac ==
  /\ pc = "combustion"
  /\ \E angle \in 0..FourPi :
       loc' = [comb |-> loc.comb, op |-> "xb", angle |-> angle,
               fuel_mass |-> 0, hrr |-> 0,
               xb |-> burned_mass_frac(loc.comb.wiebe_function, angle,
                                       loc.comb.ini_combustion)]
  /\ UNCHANGED <<objs_info, engine, zero_dim, connector, engine_connectors_index,
                 zero_dim_connectors_index, connector_objects_index, cycle_start,
                 iterations_counter, time, pc, status, runs>>

NextCombustion == HeatReleaseRate \/ BurnedMassFrac

SpecCombustion == InitCombustion /\ [][NextCombustion]_vars

\* ---- the window of the heat release (SpecCombustion)

\* The angle, or the angle one cycle later or earlier, lies strictly between
\* the ignition angle and the ignition angle plus the duration.
InBurnWindow(angle, ign, duration) ==
  \E k \in {0 - 1, 0, 1} :
     ign < angle + k * FourPi /\ angle + k * FourPi < ign + duration

\* C19: get_heat_release_rate returns zero at every crank angle outside the
\* open interval from the ignition angle to the ignition angle plus the
\* combustion duration, modulo one cycle, and burned_mass_frac is zero at
\* the ignition angle.
C19_NoHeatOutsideWindow ==
  pc = "combustion" =>
    /\ (loc.op = "hrr"
          /\ ~InBurnWindow(loc.angle, loc.comb.ini_combustion,
                           loc.comb.wiebe_function.comb_duration))
         => loc.hrr = 0
    /\ (loc.op = "xb" /\ loc.angle = loc.comb.ini_combustion) => loc.xb = 0

\* A call outside a window that straddles the end of the cycle, with fuel in
\* the cylinder.
C19_Witness ==
  /\ pc = "combustion" /\ loc.op = "hrr" /\ loc.fuel_mass > 0
  /\ loc.comb.delta_angle < 0
  /\ ~InBurnWindow(loc.angle, loc.comb.ini_combustion,
                   loc.comb.wiebe_function.comb_duration)
  /\ loc.angle # loc.comb.ini_combustion
  /\ loc.hrr = 0

\* ---- the lift profiles and angles followed (SpecLift)

\* Largest open duration, in sixths: the angle unit is chosen so that the
\* duration is a multiple of six units.
MaxLiftSixths == 4

\* Largest max_lift / diameter, in lift levels.
MaxLiftRatio == 3

InitLift ==
  /\ \E m \in 1..MaxLiftRatio, k \in 1..MaxLiftSixths :
       loc = [vl |-> ValveLift_new(m, 6 * k), op |-> "new", angle |-> 0,
              lift |-> 0]
  /\ pc = "lift"
  /\ status = "ok"
  /\ objs_info = <<>>
  /\ engine = NoEngine
  /\ zero_dim = <<>>
  /\ connector = <<>>
  /\ engine_connectors_index = <<>>
  /\ zero_dim_connectors_index = <<>>
  /\ connector_objects_index = <<>>
  /\ cycle_start = 0
  /\ iterations_counter = 0
  /\ time = <<>>
  /\ runs = 0

\* valve_lift.calc_lift(angle) at an angle since the opening of the valve.
CalcLift ==
  /\ pc = "lift"
  /\ \E angle \in 0..loc.vl.time_opened :
       loc' = [loc EXCEPT !.op = "calc_lift", !.angle = angle,
                          !.lift = ValveLift_calc_lift(loc.vl, angle)]
  /\ UNCHANGED <<objs_info, engine, zero_dim, connector, engine_connectors_index,
                 zero_dim_connectors_index, connector_objects_index, cycle_start,
                 iterations_counter, time, pc, status, runs>>

NextLift == CalcLift

SpecLift == InitLift /\ [][NextLift]_vars

\* ---- continuity of the lift profile (SpecLift)

\* C20: the lift is zero at angle 0 and at the full duration, it is
\* max_lift / diameter at the middle of the duration, and at one sixth and
\* at five sixths of the duration the two segments that meet there give the
\* same lift, which is the lift calc_lift returns.
C20_LiftContinuous ==
  (pc = "lift" /\ loc.op = "calc_lift") =>
    LET vl == loc.vl
        T == vl.time_opened
        angle == loc.angle
    IN /\ angle = 0 => loc.lift = 0
       /\ angle = T => loc.lift = 0
       /\ 2 * angle = T => loc.lift = vl.max_lift_diam_ratio * vl.den
       /\ 6 * angle = T =>
            /\ lift_segment(vl, 1, angle) = lift_segment(vl, 2, angle)
            /\ loc.lift = lift_segment(vl, 1, angle)
       /\ 6 * angle = 5 * T =>
            /\ lift_segment(vl, 2, angle) = lift_segment(vl, 3, angle)
            /\ loc.lift = lift_segment(vl, 3, angle)

\* The lift at five sixths of the duration, where the middle arc meets the
\* closing ramp above zero.
C20_Witness ==
  /\ pc = "lift" /\ loc.op = "calc_lift"
  /\ 6 * loc.angle = 5 * loc.vl.time_opened
  /\ loc.lift > 0
  /\ loc.lift = lift_segment(loc.vl, 2, loc.angle)

\* ---- one cylinder stepped through open and closed phases (SpecCylinder)

\* Largest number of steps a cylinder is followed for.
MaxCylSteps == 5

\* Mass flows the valves report to the cylinder; fresh charge comes in
\* twos, so that the injected half of it is a whole level.
IntakeFlows == {0 - 2, 0, 2}

ExhaustFlows == {0 - 2, 0}

InjTypes == {"none", "port", "direct"}

\* The total_flow_ratio a cylinder is handed: one entry per valve.
CylinderFlows(mi, me) ==
  <<[name |-> "valve_int", flow |-> [mass_flow |-> mi, enthalpy_flow |-> 0]],
    [name |-> "valve_exh", flow |-> [mass_flow |-> me, enthalpy_flow |-> 0]]>>

\* What the steps so far amount to, beside the cylinder: the number of
\* steps, the phase of the last step, the fuel injected and the fresh charge
\* credited in the open phase that is running or has just ended, the mass
\* and the fresh charge at the last change from open to closed, the number
\* of such changes, and per intake valve the fresh charge credited, the
\* last credit and the net mass that has flowed in.
NoSteps ==
  [steps |-> 0, phase |-> "none", inj_open |-> 0, fresh_open |-> 0,
   trapped |-> 0, trapped_fresh |-> 0, transitions |-> 0,
   credited |-> 0, credit |-> 0, net |-> 0]

InitCylinder ==
  /\ \E inj_type \in InjTypes :
       loc = [cyl |-> Cylinder_new("cyl_1", 0, <<"valve_int">>, <<"valve_exh">>,
                                   inj_type, Ambient, 1),
              h |-> NoSteps]
  /\ pc = "cylinder"
  /\ status = "ok"
  /\ objs_info = <<>>
  /\ engine = NoEngine
  /\ zero_dim = <<>>
  /\ connector = <<>>
  /\ engine_connectors_index = <<>>
  /\ zero_dim_connectors_index = <<>>
  /\ connector_objects_index = <<>>
  /\ cycle_start = 0
  /\ iterations_counter = 0
  /\ time = <<>>
  /\ runs = 0

\* One System::advance as the cylinder sees it: advance(dt) with the flows
\* of the step before, then update_flow_ratio with the new flows of its
\* valves.
CylinderStep ==
  /\ pc = "cylinder" /\ loc.h.steps < MaxCylSteps
  /\ \E mi \in IntakeFlows, me \in ExhaustFlows, temp \in TempLevels :
       LET c == loc.cyl
           h == loc.h
           dt == 1
           closed == is_closed_phase(c)
           c1 == Cylinder_advance(c, dt, temp)
           charge == get_charge(c.int_valves.basic_info[1], dt)[1]
           fresh_open == IF closed THEN h.fresh_open
                         ELSE IF h.phase = "open" THEN h.fresh_open + charge
                         ELSE charge
           inj_open == IF closed THEN h.inj_open
                       ELSE IF h.phase = "open"
                       THEN h.inj_open + calc_port_injected_fuel(charge)
                       ELSE calc_port_injected_fuel(charge)
           change == closed /\ h.phase = "open"
       IN /\ c1.mass \in 1..MaxMass
          /\ loc' = [cyl |-> Cylinder_update_flow_ratio(c1, CylinderFlows(mi, me)),
                     h |-> [steps |-> h.steps + 1,
                            phase |-> IF closed THEN "closed" ELSE "open",
                            inj_open |-> inj_open,
                            fresh_open |-> fresh_open,
                            trapped |-> IF change THEN c.mass ELSE h.trapped,
                            trapped_fresh |-> IF change THEN h.fresh_open
                                              ELSE h.trapped_fresh,
                            transitions |-> IF change THEN h.transitions + 1
                                            ELSE h.transitions,
                            credited |-> IF closed THEN h.credited
                                         ELSE h.credited + charge,
                            credit |-> IF closed THEN 0 ELSE charge,
                            net |-> IF closed THEN h.net
                                    ELSE h.net + c.int_valves.basic_info[1].mass_flow * dt]]
  /\ UNCHANGED <<objs_info, engine, zero_dim, connector, engine_connectors_index,
                 zero_dim_connectors_index, connector_objects_index, cycle_start,
                 iterations_counter, time, pc, status, runs>>

NextCylinder == CylinderStep

SpecCylinder == InitCylinder /\ [][NextCylinder]_vars

\* ---- fuel, trapped mass and fresh charge of a cylinder (SpecCylinder)

\* C21: with a port injector, after every closed-phase step the fuel mass of
\* the cylinder is the fuel injected during the open phase that came
\* immediately before the closed phase.
C21_FuelOfPrecedingOpenPhase ==
  (pc = "cylinder" /\ loc.cyl.injector.inj_type = "port"
     /\ loc.h.phase = "closed" /\ loc.h.transitions > 0)
    => loc.cyl.fuel_mass = loc.h.inj_open

\* Two residual fractions 1 - fresh/mass are the same number.
ResidualEq(r1, r2) == r1.fresh * r2.mass = r2.fresh * r1.mass

\* C22: in a closed phase that followed an open phase, the trapped mass
\* recorded is the mass at the change from open to closed and the residual
\* fraction recorded is one minus the fresh charge of that open phase over
\* that mass, whatever the injector and however long the closed phase lasts.
C22_TrappedAtTransition ==
  (pc = "cylinder" /\ loc.h.phase = "closed" /\ loc.h.transitions > 0) =>
    /\ loc.cyl.closed_phase_mass = loc.h.trapped
    /\ ResidualEq(loc.cyl.residual_mass_frac,
                  Residual(loc.h.trapped_fresh, loc.h.trapped))

\* C27: for the intake valve, the fresh charge credited so far minus the
\* back-flow debt outstanding is the net mass that has flowed through the
\* valve into the cylinder in the open-phase steps, and neither the credit
\* of a step nor the debt is negative.
C27_ChargeLedger ==
  pc = "cylinder" =>
    LET v == loc.cyl.int_valves.basic_info[1]
    IN /\ loc.h.credited - v.back_flow = loc.h.net
       /\ loc.h.credit >= 0
       /\ v.back_flow >= 0

\* Fresh charge was credited and a later back flow of the same size is
\* outstanding as a debt.
C27_Witness ==
  /\ pc = "cylinder"
  /\ loc.h.credited > 0
  /\ loc.cyl.int_valves.basic_info[1].back_flow > 0
  /\ loc.h.net = 0

\* ------------------------------------------------- Flow follows the pressure

\* The mass flow connector c reports for the endpoint named obj_name.
MassFlowFor(c, obj_name) == Conn_get_flow_ratio(c, obj_name).flow.mass_flow

\* C23: whenever a connector reports a nonzero flow, mass leaves the endpoint
\* of higher pressure (its flow is negative) and enters the endpoint of lower
\* pressure (its flow is positive); with equal pressures both flows are zero.
C23_DownThePressure ==
  \A c \in 1..Len(connector) :
     Len(connector_objects_index[c]) = 2 =>
       LET prop == basic_properties(zero_dim, engine, c)
       IN \A e \in 1..2 :
            LET here == prop[e]
                there == prop[3 - e]
                flow == MassFlowFor(connector[c], here.name)
            IN /\ flow < 0 => here.pressure > there.pressure
               /\ flow > 0 => here.pressure < there.pressure
               /\ here.pressure = there.pressure => flow = 0

\* A valve through which the cylinder, at the higher pressure, loses mass to
\* its port.
C23_Witness ==
  /\ Samples >= 1
  /\ \E c \in 1..Len(connector) :
        /\ connector[c].kind = "Valve"
        /\ Len(connector_objects_index[c]) = 2
        /\ LET prop == basic_properties(zero_dim, engine, c)
           IN /\ prop[1].crank_angle # NoAngle
              /\ prop[1].pressure > prop[2].pressure
              /\ MassFlowFor(connector[c], prop[1].name) < 0

\* ------------------------------------------------------- Samples and counters

\* The number of samples every tracked object of the list holds, when they
\* all hold the same number.
SameSamples(infos, n) ==
  \A k \in 1..Len(infos) : infos[k].stored_data.last_index = n

\* C24: each advance appends exactly one sample to every tracked object, all
\* objects hold the same number of samples, and during and after a
\* steady-state run that number equals the iteration counter and the number
\* of recorded time values.
C24_SampleStep ==
  /\ \E n \in 0..MAX_ARRAY_LEN : SameSamples(objs_info, n)
  /\ \E n \in 0..MAX_ARRAY_LEN : SameSamples(objs_info', n)
  /\ objs_info' # objs_info =>
        \/ SameSamples(objs_info', 0)
        \/ \A k \in 1..Len(objs_info) :
              objs_info'[k].stored_data.last_index =
                objs_info[k].stored_data.last_index + 1
  /\ Len(time') = Len(time) + 1 =>
        \A k \in 1..Len(objs_info) :
           objs_info'[k].stored_data.last_index =
             objs_info[k].stored_data.last_index + 1
  /\ runs > 0 =>
        SameSamples(objs_info, iterations_counter) /\ Len(time) = iterations_counter
  /\ runs' > 0 =>
        SameSamples(objs_info', iterations_counter') /\ Len(time') = iterations_counter'

C25_StartStep ==
  runs' = runs + 1 =>
    /\ \A k \in 1..Len(objs_info') : objs_info'[k].stored_data = StoreData_new
    /\ Len(objs_info') = Len(objs_info)
    /\ cycle_start' = 0
    /\ iterations_counter' = 0
    /\ time' = <<>>
    /\ zero_dim' = zero_dim
    /\ engine' = engine
    /\ connector' = connector

update_composition(c, angle) ==
  IF has_started(c, angle) /\ c.is_comb_ready
  THEN IF burned_mass_frac(c.wiebe_function, angle, c.ini_combustion) * 1000
            > 993 * ExpScale
       THEN "burned" ELSE "blend"
  ELSE "gas"

\* Valve timing of a cylinder without overlap: the exhaust valve open from
\* the bottom dead centre to the top dead centre of the gas exchange, the
\* intake valve from there to the next bottom dead centre.
TimedValves ==
  <<Valve_new("valve_exh", Deg180, 2 * Deg180, "cyl_1"),
    Valve_new("valve_int", 2 * Deg180, 3 * Deg180, "cyl_1")>>

ValvesClosed(angle) ==
  \A i \in 1..Len(TimedValves) : ~is_open(TimedValves[i], angle)

\* Ignition angles at which the valves are closed and stay closed for the
\* step after.
IgnitionAngles ==
  {a \in 0..(FourPi - 1) : ValvesClosed(a) /\ ValvesClosed(next_angle(a, 1))}

\* The crank angles the cylinders of an engine start from.
StartAngles == {0, Deg180, 2 * Deg180, 3 * Deg180}

MaxTwoZoneSteps == 2 * FourPi + 2

\* The unburned-zone state is named by the step at which it was cloned from
\* the cylinder gas (0: at construction).  in_event counts the clones since
\* the last step that began outside the window, events the windows entered.
InitTwoZone ==
  /\ \E ign \in IgnitionAngles, dur \in 1..(FourPi - 1), a0 \in StartAngles :
       loc = [comb |-> TwoZoneCombustion_new(ign, 10, WiebeFunction_new(7, 1, dur)),
              angle |-> a0, flowing |-> FALSE, steps |-> 0, unburned |-> 0,
              phase |-> "none", at |-> a0, was_in |-> FALSE, cloned |-> FALSE,
              in_event |-> 0, clones |-> 0, mix |-> "gas"]
  /\ pc = "twozone"
  /\ status = "ok"
  /\ objs_info = <<>>
  /\ engine = NoEngine
  /\ zero_dim = <<>>
  /\ connector = <<>>
  /\ engine_connectors_index = <<>>
  /\ zero_dim_connectors_index = <<>>
  /\ connector_objects_index = <<>>
  /\ cycle_start = 0
  /\ iterations_counter = 0
  /\ time = <<>>
  /\ runs = 0

\* One Cylinder::advance by one unit of crank angle.  The closed-phase step
\* asks the combustion model for the heat release at the angle the step
\* starts from and for the composition at the angle it ends at; the
\* open-phase step does not call the model.  After the step the valves
\* report a flow only where one of them is open.
TwoZoneStep ==
  /\ pc = "twozone" /\ loc.steps < MaxTwoZoneSteps
  /\ \E flowing \in BOOLEAN :
       LET c == loc.comb
           closed == ~loc.flowing
           inside == InBurnWindow(loc.angle, c.ini_combustion,
                                  c.wiebe_function.comb_duration)
           r == get_heat_release_rate(c, 1, loc.angle)
           cloned == closed /\ has_started(c, loc.angle) /\ ~c.is_comb_ready
           c1 == IF closed THEN r.comb ELSE c
           angle1 == next_angle(loc.angle, 1)
       IN /\ (ValvesClosed(angle1) => ~flowing)
          /\ loc' = [comb |-> c1,
                     angle |-> angle1,
                     flowing |-> flowing,
                     steps |-> loc.steps + 1,
                     unburned |-> IF cloned THEN loc.steps + 1 ELSE loc.unburned,
                     phase |-> IF closed THEN "closed" ELSE "open",
                     at |-> loc.angle,
                     was_in |-> loc.steps > 0 /\
                                InBurnWindow(loc.at, c.ini_combustion,
                                             c.wiebe_function.comb_duration),
                     cloned |-> cloned,
                     in_event |-> IF ~inside THEN 0
                                  ELSE loc.in_event + (IF cloned THEN 1 ELSE 0),
                     clones |-> loc.clones + (IF cloned THEN 1 ELSE 0),
                     mix |-> IF closed THEN update_composition(c1, loc.angle + 1)
                             ELSE "gas"]
  /\ UNCHANGED <<objs_info, engine, zero_dim, connector, engine_connectors_index,
                 zero_dim_connectors_index, connector_objects_index, cycle_start,
                 iterations_counter, time, pc, status, runs>>

NextTwoZone == TwoZoneStep

SpecTwoZone == InitTwoZone /\ [][NextTwoZone]_vars

ClosedSystem ==
  LET r0 == [st |-> "ok", b |-> SystemBuilder_new]
      a1(b) == add_engine(b, EngineCfg(<<1>>, "none", 1), Ambient)
      a2(b) == add_reservoir(b, "exhaust_port", 1, BackPressure)
      a3(b) == connect_from_to(b, "valve_int", "exhaust_port")
      a4(b) == connect_from_to(b, "valve_exh", "exhaust_port")
      a5(b) == add_reservoir(b, "res_1", 1, BackPressure)
      a6(b) == add_orifice(b, "orif_1", 1, <<"cyl_1", "res_1">>)
  IN Then(Then(Then(Then(Then(Then(r0, a1), a2), a3), a4), a5), a6).b

\* A plenum above the ambient pressure that empties into the ambient through
\* a wide orifice.
PressurisedSystem ==
  LET r0 == [st |-> "ok", b |-> SystemBuilder_new]
      a1(b) == add_environment(b, "ambient", Ambient)
      a2(b) == add_reservoir(b, "res_1", 1, BackPressure)
      a3(b) == add_orifice(b, "orif_1", 2, <<"ambient", "res_1">>)
  IN Then(Then(Then(r0, a1), a2), a3).b

\* The advance calls followed per system.
MaxMassSamples == 3

\* The systems whose mass is followed: with and without an Environment.
InitMass ==
  \E b \in {ClosedSystem, PressurisedSystem, EngineSystem("none", 1)} : Built(b)

MassAdvance == Samples < MaxMassSamples /\ Advance

NextMass == MassAdvance

SpecMass == InitMass /\ [][NextMass]_vars

\* The mass of the reservoirs and cylinders of a state.
TotalMass(zd, eng) ==
  SumSeq(AsSeq([i \in 1..Len(zd) |->
            IF zd[i].kind = "Reservoir" THEN zd[i].mass ELSE 0]))
  + SumSeq(AsSeq([k \in 1..Len(eng.cylinders) |-> eng.cylinders[k].mass]))

\* The mass flow the connectors report into the Environments.
EnvironmentInflow ==
  SumSeq(AsSeq([i \in 1..Len(zero_dim) |->
            IF zero_dim[i].kind = "Environment"
            THEN ReportedMassFlow(connector, zero_dim_connectors_index[i],
                                  zero_dim[i].name)
            ELSE 0]))

\* C28: in every advance call the total mass of the reservoirs and cylinders
\* changes by the mass exchanged with the Environments only; without an
\* Environment it stays as it is, whatever connectors join the control
\* volumes.
C28_MassStep(dt) ==
  TotalMass(zero_dim', engine') = TotalMass(zero_dim, engine) - dt * EnvironmentInflow

C28_MassConserved == [][AdvanceStep => \E dt \in StepDts : C28_MassStep(dt)]_vars

\* ------------------------------------------------------- Mass stays positive

\* C29: after any sequence of advance calls the mass of every reservoir and
\* of every cylinder is strictly positive: no control volume gives up more
\* mass in a step than it holds.
C29_MassPositive ==
  /\ \A i \in 1..Len(zero_dim) :
        zero_dim[i].kind = "Reservoir" => zero_dim[i].mass > 0
  /\ \A k \in 1..Len(engine.cylinders) : engine.cylinders[k].mass > 0

\* ------------------------------------------------ The length of a single run

\* Systems taken to steady state once: an engine at each speed, and a system
\* without an engine.
InitRun ==
  \E b \in {EngineSystemWith("none", 1, Ambient), EngineSystemWith("none", 2, Ambient),
            ReservoirSystem} : Built(b)

\* advance_to_steady_state is called once on each system.
RunBegin == runs = 0 /\ SteadyStart

NextRun == RunBegin \/ SteadyIter

SpecRun == InitRun /\ [][NextRun]_vars

\* One pass through the loop of a run either ends the run, or stops the
\* program, or takes one more step: the counter and the clock both grow.
C30_LoopStep ==
  (pc = "loop" /\ status = "ok") =>
     \/ pc' = "ready"
     \/ status' # "ok"
     \/ /\ iterations_counter' = iterations_counter + 1
        /\ loc'.time > loc.time

====
